---- MODULE Spec2Model ----
(***************************************************************************)
(* State-machine model of the trading bot's decision-and-execution core:   *)
(* the orchestration loop (runBot), the position monitor, the order         *)
(* executor, the risk engine, the symbol cooldown map and the              *)
(* administrative routes that touch the same state from outside the loop.  *)
(*                                                                         *)
(* Units.  Prices are integers in hundredths of the quote asset.           *)
(* Quantities are integers in multiples of the symbol's stepSize.          *)
(* Time (Date.now()) is in minutes.  Percentages are whole percents.       *)
(* Every comparison the code makes on floating-point numbers is made here  *)
(* on the exact rational value, cross-multiplied to integers.              *)
(***************************************************************************)
EXTENDS Integers, Sequences, FiniteSets, TLC

VARIABLES
    config,         \* env config read at startup: TRADING_ENABLED, BOT_KILL_SWITCH
    bot_state,      \* the bot_state key/value table
    positions,      \* the positions table, in creation order (id = index)
    orders,         \* the orders table (append-only audit records)
    exchange,       \* orders the exchange has accepted
    cooldownMap,    \* symbolCooldown.ts: symbol -> entry
    now,            \* Date.now(), minutes
    isRunning,      \* botRunner: let isRunning
    shouldStop,     \* botRunner: let shouldStop
    pc,             \* where the loop task is suspended
    openPositions,  \* monitorPositions: rows read by getOpenPositions, still to check
    trailing,       \* monitorPositions: trailing settings read for this pass
    checkedPrice,   \* checkPosition: the ticker price it read (0 outside the pass)
    sellJob,        \* executeSellOrder in flight for the monitor
    decisions,      \* executeDecisions: decisions still to execute
    buyJob,         \* executeBuyOrder in flight
    lastResult,     \* the ExecutionResult last pushed by executeDecisions
    lookup,         \* the last isSymbolOnCooldown call: symbol, time, entry seen, result
    monitored,      \* whether monitorPositions has been called in the current iteration
    closeReq,       \* POST /positions/:id/close in flight
    candleFetch,    \* fetchMultiSymbolCandles: its arrays successful and failed
    retry,          \* binanceClient.withRetry: the call in progress
    macd,           \* macdStrategy.computeMacdDecision: the call in progress
    strategy_config, \* the active row of the strategy_config table (NoRow: none)
    configCache,    \* simpleStrategy: cachedConfig and configLastFetch
    signalCall,     \* simpleStrategy.computeSignal: the calls in progress
    sizingError     \* the message of the Error calculateOrderQuantity threw last

vars == << config, bot_state, positions, orders, exchange, cooldownMap, now,
           isRunning, shouldStop, pc, openPositions, trailing, checkedPrice, sellJob,
           decisions, buyJob, lastResult, lookup, monitored, closeReq, candleFetch,
           retry, macd, strategy_config, configCache, signalCall, sizingError >>

\* the state of the library functions, and what only executeBuyOrder writes
libVars == << retry, macd, strategy_config, configCache, signalCall, sizingError >>

loopVars == << pc, openPositions, trailing, checkedPrice, sellJob, decisions, buyJob,
               monitored, candleFetch >>

----------------------------------------------------------------------------
(* Bounds of the model *)

MaxPositions == 2
MaxNow == 61
TimeStep == 60
CooldownStep == 15
MaxOrders == 2          \* database errors occur only while the exchange holds fewer orders
MaxConfigId == 2        \* ids of the strategy rows activated
MaxCacheNow == 2        \* minutes over which the strategy's config cache is followed

(* Program constants *)

STOP_LOSS_PERCENT == 2
TAKE_PROFIT_PERCENT == 8
TRAILING_STOP_ENABLED == TRUE
TRAILING_STOP_ACTIVATION_PERCENT == 5
TRAILING_STOP_DISTANCE_PERCENT == 3
MAX_OPEN_ORDERS_PER_SYMBOL == 1
MAX_TRADING_CAPITAL_PERCENT == 80
RISK_PER_TRADE_PERCENT == 1
MIN_NOTIONAL_BUFFER_TENTHS == 12
DefaultMinNotional == 10

(* Inputs the environment supplies *)

NULL == "null"
Symbols == {"A", "B"}
\* ticker prices, hundredths: so low that the position's notional is under
\* minNotional, below the initial stop, above the trailing activation, above
\* the take profit
TickerPrices == {8000, 9700, 10600, 10900}
EntryPrices == {10000}
\* free base-asset balance, quote units: none; too little for the raised
\* quantity; a risk quantity under the buffered minNotional (with a stop of 4%:
\* under minNotional itself, 0.05 units for 25); one exactly at it; 14 covers
\* the raised order value, but its trading capital (80%) does not
Balances == {0, 10, 14, 20, 25, 30}
\* exchange filters of a symbol: steps per unit (1 / stepSize = 1 / 0.001),
\* minQty in steps, minNotional in quote units (the code's default)
SymbolFilters == [stepsPerUnit |-> 1000, minQtySteps |-> 1, minNotional |-> DefaultMinNotional]
\* trailing_stop_distance_percent of the active strategy row (editable at run
\* time), or the env default
TrailingDistances == {TRAILING_STOP_DISTANCE_PERCENT, 5}
Scores == {5, 9}
\* stop_loss_percent and take_profit_percent executeBuyOrder works with: the
\* env config's, or those of the active strategy_config row, which
\* PUT /strategy/:name writes as sent
EnvStrategy == [stop_loss_percent |-> STOP_LOSS_PERCENT,
                take_profit_percent |-> TAKE_PROFIT_PERCENT]
Strategies == {EnvStrategy,
               [stop_loss_percent |-> 0, take_profit_percent |-> TAKE_PROFIT_PERCENT],
               [stop_loss_percent |-> STOP_LOSS_PERCENT, take_profit_percent |-> 0],
               [stop_loss_percent |-> 4, take_profit_percent |-> TAKE_PROFIT_PERCENT]}
\* stop_loss_price values of PATCH /positions/:id/stop-loss, hundredths
OverrideStops == {10950}
\* the same with a request under the entry price
LowOverrideStops == OverrideStops \cup {9900}

Terminal == {"STOPPED_OUT", "TAKE_PROFIT", "CLOSED"}

Max(a, b) == IF a >= b THEN a ELSE b
Min(a, b) == IF a <= b THEN a ELSE b

----------------------------------------------------------------------------
(* bot_state.ts *)

StateKeys == {"TRADING_ENABLED", "KILL_SWITCH", "BOT_KILL_SWITCH"}

boolStr(b) == IF b THEN "true" ELSE "false"

setState(bs, key, value) == [bs EXCEPT ![key] = value]

getState(bs, key) == bs[key]

getKillSwitch(bs) ==
    LET v == getState(bs, "KILL_SWITCH")
    IN (IF v = NULL THEN "false" ELSE v) = "true"

getTradingEnabled(bs) ==
    LET v == getState(bs, "TRADING_ENABLED")
    IN (IF v = NULL THEN "false" ELSE v) = "true"

\* index.ts: "Initialize bot state" on top of whatever the table held
initBotState(table, cfg) ==
    setState(setState(table, "TRADING_ENABLED", boolStr(cfg.TRADING_ENABLED)),
             "BOT_KILL_SWITCH", boolStr(cfg.BOT_KILL_SWITCH))

----------------------------------------------------------------------------
(* riskEngine.ts *)

openPositionCount(ps, symbol) ==
    Cardinality({i \in 1..Len(ps) : ps[i].symbol = symbol /\ ps[i].status = "OPEN"})

checkGlobalTrading(bs) ==
    IF getKillSwitch(bs)
    THEN [allowed |-> FALSE, reason |-> "Kill switch is active"]
    ELSE IF ~getTradingEnabled(bs)
         THEN [allowed |-> FALSE, reason |-> "Trading is disabled"]
         ELSE [allowed |-> TRUE, reason |-> "OK"]

\* config.RISK_PER_TRADE_USDT is not a key of the BotConfig the executor is
\* built against, so `orderValueUSDT > undefined` is false for every value
exceedsRiskPerTrade(orderValueUSDT) == FALSE

validateOrder_NoCap(symbol, orderValueUSDT, bs, ps) ==
    checkGlobalTrading(bs)

validateOrder_StrictCap(symbol, orderValueUSDT, bs, ps) ==
    LET globalCheck == checkGlobalTrading(bs)
    IN IF ~globalCheck.allowed
       THEN globalCheck
       ELSE IF openPositionCount(ps, symbol) > MAX_OPEN_ORDERS_PER_SYMBOL
            THEN [allowed |-> FALSE, reason |-> "Max open positions reached"]
            ELSE [allowed |-> TRUE, reason |-> "OK"]

validateOrder(symbol, orderValueUSDT, bs, ps) ==
    LET globalCheck == checkGlobalTrading(bs)
    IN IF ~globalCheck.allowed
       THEN globalCheck
       ELSE IF exceedsRiskPerTrade(orderValueUSDT)
            THEN [allowed |-> FALSE, reason |-> "Order value exceeds risk limit"]
            ELSE IF openPositionCount(ps, symbol) >= MAX_OPEN_ORDERS_PER_SYMBOL
                 THEN [allowed |-> FALSE, reason |-> "Max open positions reached"]
                 ELSE [allowed |-> TRUE, reason |-> "OK"]

----------------------------------------------------------------------------
(* symbolCooldown.ts *)

Reasons == {"stop_loss", "take_profit", "manual_sell"}

NoEntry == [reason |-> NULL, closedAt |-> 0]

COOLDOWN_DURATION(reason) ==
    CASE reason = "stop_loss" -> 60
      [] reason = "manual_sell" -> 30
      [] reason = "take_profit" -> 15

addSymbolCooldown(map, symbol, reason, t) ==
    [map EXCEPT ![symbol] = [reason |-> reason, closedAt |-> t]]

cooldownActive_Inclusive(entry, t) ==
    /\ entry # NoEntry
    /\ t - entry.closedAt <= COOLDOWN_DURATION(entry.reason)

\* the test of isSymbolOnCooldown and getActiveCooldowns: elapsed < duration
cooldownActive(entry, t) ==
    /\ entry # NoEntry
    /\ t - entry.closedAt < COOLDOWN_DURATION(entry.reason)

isSymbolOnCooldown_Expired(map, symbol, t) ==
    [result |-> FALSE, map |-> [map EXCEPT ![symbol] = NoEntry]]

\* isSymbolOnCooldown: the value returned and the map it leaves
isSymbolOnCooldown(map, symbol, t) ==
    LET entry == map[symbol]
    IN IF entry = NoEntry
       THEN [result |-> FALSE, map |-> map]
       ELSE IF cooldownActive(entry, t)
            THEN [result |-> TRUE, map |-> map]
            ELSE [result |-> FALSE, map |-> [map EXCEPT ![symbol] = NoEntry]]

removeCooldown(map, symbol) == [map EXCEPT ![symbol] = NoEntry]

getActiveCooldowns(map, t) ==
    [s \in Symbols |-> IF cooldownActive(map[s], t) THEN map[s] ELSE NoEntry]

clearAllCooldowns(map) == [s \in Symbols |-> NoEntry]

----------------------------------------------------------------------------
(* positions.ts: the queries, on the table as a sequence of rows.  A NULL *)
(* numeric column is 0 (both are falsy where the code tests them).  The    *)
(* columns current_price, pnl_usdt and pnl_percent, which the code writes  *)
(* and reads only to log, and the timestamps are left out of the rows.     *)

createPosition(ps, row) == Append(ps, [row EXCEPT !.id = Len(ps) + 1])

getOpenPositions(ps) ==
    \* ORDER BY created_at DESC: newest first
    LET RECURSIVE newestFirst(_)
        newestFirst(i) ==
            IF i = 0 THEN << >>
            ELSE IF ps[i].status = "OPEN"
                 THEN << ps[i] >> \o newestFirst(i - 1)
                 ELSE newestFirst(i - 1)
    IN newestFirst(Len(ps))

updatePositionPrice_Overwrite(ps, id, currentPrice, highestPrice) ==
    [ps EXCEPT ![id] = [@ EXCEPT !.highest_price = highestPrice]]

\* highest_price = GREATEST(COALESCE(highest_price, entry_price), $3)
updatePositionPrice(ps, id, currentPrice, highestPrice) ==
    [ps EXCEPT ![id] =
        [@ EXCEPT !.highest_price =
                      Max(IF @ = 0 THEN ps[id].entry_price ELSE @, highestPrice)]]

updatePositionStopLoss(ps, id, stopLossPrice) ==
    [ps EXCEPT ![id].stop_loss_price = stopLossPrice]

\* UPDATE positions SET status, exit_order_id WHERE id = $1 (no test of status)
closePosition(ps, id, exitOrderId, status) ==
    [ps EXCEPT ![id].status = status, ![id].exit_order_id = exitOrderId]

insertOrder(os, symbol, side, qty, orderId) ==
    Append(os, [symbol |-> symbol, side |-> side, qty |-> qty,
                binance_order_id |-> orderId])

----------------------------------------------------------------------------
(* positionMonitor.ts *)

checkExit_TakeProfitFirst(position, currentPrice) ==
    IF position.take_profit_price # 0 /\ currentPrice >= position.take_profit_price
    THEN "TAKE_PROFIT"
    ELSE IF position.stop_loss_price # 0 /\ currentPrice <= position.stop_loss_price
         THEN "STOPPED_OUT"
         ELSE "NONE"

\* checkPosition, lines 120-136: which exit fires, stop loss first
checkExit(position, currentPrice) ==
    IF position.stop_loss_price # 0 /\ currentPrice <= position.stop_loss_price
    THEN "STOPPED_OUT"
    ELSE IF position.take_profit_price # 0 /\ currentPrice >= position.take_profit_price
         THEN "TAKE_PROFIT"
         ELSE "NONE"

trailingCandidate_NoFloor(position, trailingDistance) ==
    LET highestPriceValue ==
            IF position.highest_price = 0 THEN position.entry_price
            ELSE position.highest_price
    IN (highestPriceValue * (100 - trailingDistance)) \div 100

\* newStopLoss = Math.max(highestPriceValue * (1 - trailingDistance / 100), entry_price)
trailingCandidate(position, trailingDistance) ==
    LET highestPriceValue ==
            IF position.highest_price = 0 THEN position.entry_price
            ELSE position.highest_price
        trailingStopPrice == (highestPriceValue * (100 - trailingDistance)) \div 100
    IN Max(trailingStopPrice, position.entry_price)

trailingActivated(position, currentPrice, trailingActivation) ==
    \* not (pnlPercent < trailingActivation)
    (currentPrice - position.entry_price) * 100 >= trailingActivation * position.entry_price

currentStopLossOf(position) ==
    IF position.stop_loss_price # 0 THEN position.stop_loss_price
    ELSE position.initial_stop_loss_price

checkTrailingStop_NoGuard(position, currentPrice, trailingActivation, trailingDistance) ==
    IF ~trailingActivated(position, currentPrice, trailingActivation)
    THEN [write |-> FALSE, stop |-> 0]
    ELSE [write |-> TRUE, stop |-> trailingCandidate(position, trailingDistance)]

\* checkTrailingStop: whether updatePositionStopLoss is called, and with what
checkTrailingStop(position, currentPrice, trailingActivation, trailingDistance) ==
    IF ~trailingActivated(position, currentPrice, trailingActivation)
    THEN [write |-> FALSE, stop |-> 0]
    ELSE LET newStopLoss == trailingCandidate(position, trailingDistance)
         IN IF newStopLoss > currentStopLossOf(position)
            THEN [write |-> TRUE, stop |-> newStopLoss]
            ELSE [write |-> FALSE, stop |-> 0]

sellBlocked_MinQtyOnly(quantity, currentPrice) ==
    quantity < SymbolFilters.minQtySteps

\* executeSellOrder, lines 206-231: the guards before the order is built.
\* position.quantity is a whole number of steps, so roundToStepSize keeps it.
sellBlocked(quantity, currentPrice) ==
    \/ quantity < SymbolFilters.minQtySteps
    \/ quantity * currentPrice < SymbolFilters.minNotional * 100 * SymbolFilters.stepsPerUnit

exitCooldownReason(closeReason) ==
    CASE closeReason = "STOPPED_OUT" -> "stop_loss"
      [] closeReason = "TAKE_PROFIT" -> "take_profit"
      [] OTHER -> NULL

----------------------------------------------------------------------------
(* executor.ts *)

CeilDiv(a, b) == (a + b - 1) \div b

\* currentPrice * (1 - stopLossPercent / 100)
stopLossPriceOf(currentPrice, stopLossPercent) ==
    (currentPrice * (100 - stopLossPercent)) \div 100

takeProfitPriceOf(currentPrice, takeProfitPercent) ==
    (currentPrice * (100 + takeProfitPercent)) \div 100

\* calculateOrderQuantity followed by roundToStepSize, in steps:
\* floor( (balance * cap/100 * risk/100) / (price * sl/100) / stepSize )
riskQuantitySteps(baseBalance, currentPrice, stopLossPercent) ==
    (baseBalance * MAX_TRADING_CAPITAL_PERCENT * RISK_PER_TRADE_PERCENT
        * SymbolFilters.stepsPerUnit) \div (currentPrice * stopLossPercent)

\* orderValueUSDT < filters.minNotional * MIN_NOTIONAL_BUFFER
belowBufferedNotional(steps, currentPrice) ==
    steps * currentPrice * 10
        < SymbolFilters.minNotional * MIN_NOTIONAL_BUFFER_TENTHS * 100
              * SymbolFilters.stepsPerUnit

\* the adjustment of the earlier executor (src/src/modules/execution/executor.ts):
\* Math.ceil(filters.minNotional / currentPrice / filters.stepSize), in steps
raisedQuantitySteps_NoBuffer(currentPrice) ==
    CeilDiv(SymbolFilters.minNotional * 100 * SymbolFilters.stepsPerUnit, currentPrice)

\* Math.ceil(minNotionalWithBuffer / currentPrice / stepSize), in steps
raisedQuantitySteps(currentPrice) ==
    CeilDiv(SymbolFilters.minNotional * MIN_NOTIONAL_BUFFER_TENTHS * 10
                * SymbolFilters.stepsPerUnit, currentPrice)

orderQuantitySteps(baseBalance, currentPrice, stopLossPercent) ==
    LET q == riskQuantitySteps(baseBalance, currentPrice, stopLossPercent)
    IN IF belowBufferedNotional(q, currentPrice)
       THEN raisedQuantitySteps(currentPrice)
       ELSE q

\* the test of the earlier executor (src/src/modules/execution/executor.ts):
\* usdtBalance < orderValueUSDT
insufficientCapital_FullBalance(baseBalance, steps, currentPrice) ==
    baseBalance * 100 * SymbolFilters.stepsPerUnit < steps * currentPrice

\* tradingCapital < orderValueUSDT
insufficientCapital(baseBalance, steps, currentPrice) ==
    baseBalance * MAX_TRADING_CAPITAL_PERCENT * SymbolFilters.stepsPerUnit
        < steps * currentPrice

Skip(reason, map) ==
    [proceed |-> FALSE, throws |-> FALSE, reason |-> reason, map |-> map,
     quantity |-> 0, stopLossPrice |-> 0, takeProfitPrice |-> 0]

\* calculateOrderQuantity: throw new Error('Stop loss price must be below entry price')
Throw(map) ==
    [proceed |-> FALSE, throws |-> TRUE,
     reason |-> "Stop loss price must be below entry price", map |-> map,
     quantity |-> 0, stopLossPrice |-> 0, takeProfitPrice |-> 0]

\* the sizing of the earlier executor (src/src/modules/execution/executor.ts):
\* with no stop distance the quantity is riskAmountUSDT / currentPrice
executeBuyOrder_Fallback(decision, map, t, bs, ps, baseBalance, strategy) ==
    LET cd == isSymbolOnCooldown(map, decision.symbol, t)
        price == decision.currentPrice
        stopLossPrice == stopLossPriceOf(price, strategy.stop_loss_percent)
        takeProfitPrice == takeProfitPriceOf(price, strategy.take_profit_percent)
        fallback == (baseBalance * MAX_TRADING_CAPITAL_PERCENT * RISK_PER_TRADE_PERCENT
                        * SymbolFilters.stepsPerUnit) \div (price * 100)
        rq == IF price - stopLossPrice <= 0 THEN fallback
              ELSE riskQuantitySteps(baseBalance, price, strategy.stop_loss_percent)
        q == IF belowBufferedNotional(rq, price) THEN raisedQuantitySteps(price) ELSE rq
        validation == validateOrder(decision.symbol, 0, bs, ps)
    IN IF cd.result
       THEN Skip("Symbol on cooldown after recent close", map)
       ELSE IF baseBalance = 0
            THEN Skip("No balance", cd.map)
            ELSE IF rq < SymbolFilters.minQtySteps
                 THEN Skip("Quantity too small", cd.map)
                 ELSE IF insufficientCapital(baseBalance, q, price)
                      THEN Skip("Insufficient capital", cd.map)
                      ELSE IF ~validation.allowed
                           THEN Skip(validation.reason, cd.map)
                           ELSE [proceed |-> TRUE, throws |-> FALSE,
                                 reason |-> "OK", map |-> cd.map, quantity |-> q,
                                 stopLossPrice |-> stopLossPrice,
                                 takeProfitPrice |-> takeProfitPrice]

\* executeBuyOrder, lines 98-218: everything before the order is sent
executeBuyOrder(decision, map, t, bs, ps, baseBalance, strategy) ==
    LET cd == isSymbolOnCooldown(map, decision.symbol, t)
        price == decision.currentPrice
        stopLossPrice == stopLossPriceOf(price, strategy.stop_loss_percent)
        takeProfitPrice == takeProfitPriceOf(price, strategy.take_profit_percent)
        rq == riskQuantitySteps(baseBalance, price, strategy.stop_loss_percent)
        q == orderQuantitySteps(baseBalance, price, strategy.stop_loss_percent)
        validation == validateOrder(decision.symbol, 0, bs, ps)
    IN IF cd.result
       THEN Skip("Symbol on cooldown after recent close", map)
       ELSE IF baseBalance = 0
            THEN Skip("No balance", cd.map)
            ELSE IF price - stopLossPrice <= 0
                 THEN Throw(cd.map)
                 ELSE IF rq < SymbolFilters.minQtySteps
                      THEN Skip("Quantity too small", cd.map)
                      ELSE IF insufficientCapital(baseBalance, q, price)
                           THEN Skip("Insufficient capital", cd.map)
                           ELSE IF ~validation.allowed
                                THEN Skip(validation.reason, cd.map)
                                ELSE [proceed |-> TRUE, throws |-> FALSE,
                                      reason |-> "OK", map |-> cd.map, quantity |-> q,
                                      stopLossPrice |-> stopLossPrice,
                                      takeProfitPrice |-> takeProfitPrice]

----------------------------------------------------------------------------
(* binanceClient.ts: withRetry *)

MAX_RETRIES == 3

NoCode == 0
NoError == [code |-> NoCode, text4 |-> FALSE]

\* What a signed request can throw.  signedRequest throws
\* Error('Binance API error: ' + JSON.stringify(data)), so an exchange error
\* reads {"code":<code>,"msg":"<msg>"}; a network failure carries no code.
\* text4: whether the character 4 occurs in the text outside the code.
ExchangeErrors ==
    {[code |-> 0 - 1003, text4 |-> FALSE],   \* Too many requests
     [code |-> 0 - 1015, text4 |-> FALSE],   \* Too many new orders
     [code |-> 0 - 1121, text4 |-> FALSE],   \* Invalid symbol.
     [code |-> 0 - 2010, text4 |-> FALSE],   \* Account has insufficient balance ...
     [code |-> 0 - 1013, text4 |-> FALSE],   \* Filter failure: MIN_NOTIONAL
     [code |-> 0 - 2014, text4 |-> FALSE],   \* API-key format invalid.
     [code |-> NoCode, text4 |-> FALSE]}     \* fetch failed

\* what one call of fn() comes to: its response, or the error it throws
Outcomes ==
    {[ok |-> TRUE, error |-> NoError]}
        \cup {[ok |-> FALSE, error |-> e] : e \in ExchangeErrors}

\* whether the exchange acted on the request signedRequest sent: it did when
\* the response is the order; it did not when the response is an error of the
\* exchange; when fetch or res.json() failed the request may have been
\* received and acted on before the connection was lost
requestAccepted(outcome) ==
    IF outcome.ok THEN {TRUE}
    ELSE IF outcome.error.code # NoCode THEN {FALSE}
    ELSE {TRUE, FALSE}

\* the decimal digits of n contain the digit d
RECURSIVE hasDigit(_, _)
hasDigit(n, d) ==
    IF n < 0 THEN hasDigit(0 - n, d)
    ELSE IF n % 10 = d THEN TRUE
    ELSE IF n < 10 THEN FALSE
    ELSE hasDigit(n \div 10, d)

\* msg.includes('"code":-1003') || msg.includes('"code":-1015')
isRateLimit(err) == err.code \in {0 - 1003, 0 - 1015}

\* msg.includes('"code":') && msg.includes('4')
isClientError(err) ==
    /\ err.code # NoCode
    /\ hasDigit(err.code, 4) \/ err.text4

\* a loop that retries a rate-limited call without counting the attempt
withRetry_NoCap(r, outcome) ==
    IF outcome.ok
    THEN [r EXCEPT !.pc = "returned", !.calls = @ + 1]
    ELSE IF isRateLimit(outcome.error)
    THEN [r EXCEPT !.calls = @ + 1, !.lastError = outcome.error]
    ELSE IF isClientError(outcome.error)
    THEN [r EXCEPT !.pc = "thrown", !.calls = @ + 1, !.lastError = outcome.error]
    ELSE [r EXCEPT !.pc = IF r.attempt + 1 <= MAX_RETRIES THEN "call" ELSE "thrown",
                   !.attempt = @ + 1, !.calls = @ + 1, !.lastError = outcome.error]

\* one turn of the for loop of withRetry: fn() is called and returns, or throws
\* outcome; the sleeps are part of the turn.  When the loop ends lastError is
\* thrown.
withRetry(r, outcome) ==
    IF outcome.ok
    THEN [r EXCEPT !.pc = "returned", !.calls = @ + 1]
    ELSE IF isRateLimit(outcome.error)
    THEN [r EXCEPT !.pc = IF r.attempt + 1 <= MAX_RETRIES THEN "call" ELSE "thrown",
                   !.attempt = @ + 1, !.calls = @ + 1, !.lastError = outcome.error]
    ELSE IF isClientError(outcome.error)
    THEN [r EXCEPT !.pc = "thrown", !.calls = @ + 1, !.lastError = outcome.error]
    ELSE [r EXCEPT !.pc = IF r.attempt + 1 <= MAX_RETRIES THEN "call" ELSE "thrown",
                   !.attempt = @ + 1, !.calls = @ + 1, !.lastError = outcome.error]

----------------------------------------------------------------------------
(* strategy/macdStrategy.ts.  MACD values are integers in hundredths of the *)
(* quote currency; a series is a sequence of points [macd, signal], the     *)
(* histogram of a point being macd - signal.  Indices are those of the      *)
(* source plus one, and 0 stands for the source's -1.                       *)

H4_CROSS_LOOKBACK == 20
H4_STATS_LOOKBACK == 120
MIN_D1_MACD_POINTS == 10
MIN_H4_MACD_POINTS == 30
MinCandles == 26
Ema12Period == 12
Ema26Period == 26
SignalPeriod == 9
MacdScore == 3

Point(m, s) == [macd |-> m, signal |-> s]
histogram(p) == p.macd - p.signal

\* The candles fetchCandles returns for one timeframe, by what computeMacdSeries
\* makes of them: count candles, whose MACD points are head, then base
\* repeated, then the points of tail
Candles(count, head, base, tail) ==
    [count |-> count, head |-> head, base |-> base, tail |-> tail]

\* emaSeriesAligned leaves the first period - 1 entries null
emaDefined(length, period) == IF length < period THEN 0 ELSE length - (period - 1)

\* computeMacdSeries: empty under 26 candles; a point exists from the candle
\* where EMA(12), EMA(26) and the EMA(9) of their difference are all defined
computeMacdSeries(candles) ==
    IF candles.count < MinCandles THEN << >>
    ELSE LET macdRaw == Min(emaDefined(candles.count, Ema12Period),
                             emaDefined(candles.count, Ema26Period))
             len == emaDefined(macdRaw, SignalPeriod)
             n == Len(candles.tail)
         IN [i \in 1..len |->
                IF len - i < n THEN candles.tail[n - (len - i)]
                ELSE IF i = 1 THEN candles.head
                ELSE candles.base]

\* macdValues.sort(...)[Math.max(0, Math.ceil((p / 100) * len) - 1)]
percentile(macdValues, p) ==
    LET len == Len(macdValues)
        ceil == (p * len + 99) \div 100
        idx == IF ceil - 1 < 0 THEN 0 ELSE ceil - 1
        below(v) == Cardinality({i \in 1..len : macdValues[i] < v})
        upTo(v) == Cardinality({i \in 1..len : macdValues[i] <= v})
    IN CHOOSE v \in {macdValues[i] : i \in 1..len} : below(v) <= idx /\ idx < upTo(v)

\* computeMacdStats over macdSeries.slice(-lookback)
computeMacdStats(macdSeries, lookback) ==
    LET len == Min(lookback, Len(macdSeries))
        macdValues == [i \in 1..len |-> macdSeries[Len(macdSeries) - len + i].macd]
        values == {macdValues[i] : i \in 1..len}
    IN IF len = 0 THEN [min |-> 0, max |-> 0, p25 |-> 0, p50 |-> 0, p75 |-> 0]
       ELSE [min |-> CHOOSE v \in values : \A w \in values : v <= w,
             max |-> CHOOSE v \in values : \A w \in values : v >= w,
             p25 |-> percentile(macdValues, 25),
             p50 |-> percentile(macdValues, 50),
             p75 |-> percentile(macdValues, 75)]

\* Gate 1.  minSeparation = macdRange * 0.05, compared here times 100
computeDailyBiasFromSeries(macdSeries) ==
    IF Len(macdSeries) < MIN_D1_MACD_POINTS THEN "NEUTRAL"
    ELSE LET latestMacd == macdSeries[Len(macdSeries)]
             stats == computeMacdStats(macdSeries, Len(macdSeries))
             macdRange == stats.max - stats.min
         IN IF macdRange <= 0 THEN "NEUTRAL"
            ELSE IF /\ latestMacd.macd > latestMacd.signal
                    /\ latestMacd.signal > 0
                    /\ (latestMacd.macd - latestMacd.signal) * 100 > macdRange * 5
            THEN "BULLISH"
            ELSE IF /\ latestMacd.macd < latestMacd.signal
                    /\ latestMacd.signal < 0
                    /\ (latestMacd.signal - latestMacd.macd) * 100 > macdRange * 5
            THEN "BEARISH"
            ELSE "NEUTRAL"

isBullishCrossover(prev, curr) == prev.macd <= prev.signal /\ curr.macd > curr.signal
isBearishCrossover(prev, curr) == prev.macd >= prev.signal /\ curr.macd < curr.signal

\* findRecentCrossover: the last index from start = max(1, length - lookback) on
\* where MACD crosses the signal line
findRecentCrossover(macdSeries, lookback) ==
    LET len == Len(macdSeries)
        start == IF len - lookback < 1 THEN 1 ELSE len - lookback
        found == {i \in (start + 1)..len :
                     \/ isBullishCrossover(macdSeries[i - 1], macdSeries[i])
                     \/ isBearishCrossover(macdSeries[i - 1], macdSeries[i])}
    IN IF found = {} THEN 0 ELSE CHOOSE i \in found : \A j \in found : j <= i

NoCrossover ==
    [direction |-> "NONE", recentCrossIndex |-> 0, strengthOk |-> FALSE,
     strengthReason |-> "NO_CROSSOVER"]

\* a trigger that does not look at the strength of the crossover
computeH4Signal_NoStrength(macdSeries, bias) ==
    IF Len(macdSeries) < MIN_H4_MACD_POINTS THEN NoCrossover
    ELSE LET crossoverIdx == findRecentCrossover(macdSeries, H4_CROSS_LOOKBACK)
         IN IF crossoverIdx = 0 THEN NoCrossover
            ELSE LET crossoverPoint == macdSeries[crossoverIdx]
                     prevPoint == macdSeries[crossoverIdx - 1]
                     direction ==
                         IF isBullishCrossover(prevPoint, crossoverPoint)
                                /\ bias = "BULLISH" THEN "LONG"
                         ELSE IF isBearishCrossover(prevPoint, crossoverPoint)
                                /\ bias = "BEARISH" THEN "SHORT"
                         ELSE "NONE"
                 IN IF direction = "NONE"
                    THEN [direction |-> "NONE", recentCrossIndex |-> crossoverIdx,
                          strengthOk |-> FALSE, strengthReason |-> "BIAS_MISMATCH"]
                    ELSE [direction |-> direction, recentCrossIndex |-> crossoverIdx,
                          strengthOk |-> TRUE, strengthReason |-> "OK"]

\* Gate 2
computeH4Signal(macdSeries, bias) ==
    IF Len(macdSeries) < MIN_H4_MACD_POINTS THEN NoCrossover
    ELSE LET crossoverIdx == findRecentCrossover(macdSeries, H4_CROSS_LOOKBACK)
         IN IF crossoverIdx = 0 THEN NoCrossover
            ELSE LET crossoverPoint == macdSeries[crossoverIdx]
                     prevPoint == macdSeries[crossoverIdx - 1]
                     direction ==
                         IF isBullishCrossover(prevPoint, crossoverPoint)
                                /\ bias = "BULLISH" THEN "LONG"
                         ELSE IF isBearishCrossover(prevPoint, crossoverPoint)
                                /\ bias = "BEARISH" THEN "SHORT"
                         ELSE "NONE"
                     stats == computeMacdStats(macdSeries,
                                               Min(H4_STATS_LOOKBACK, Len(macdSeries)))
                     strengthOk == IF direction = "LONG"
                                   THEN crossoverPoint.macd >= stats.p75
                                   ELSE crossoverPoint.macd <= stats.p25
                 IN IF direction = "NONE"
                    THEN [direction |-> "NONE", recentCrossIndex |-> crossoverIdx,
                          strengthOk |-> FALSE, strengthReason |-> "BIAS_MISMATCH"]
                    ELSE [direction |-> direction, recentCrossIndex |-> crossoverIdx,
                          strengthOk |-> strengthOk,
                          strengthReason |-> IF strengthOk THEN "OK" ELSE "WEAK"]

\* Gate 3: the last three histogram bars
confirmH1Histogram(macdSeries, biasDirection) ==
    IF Len(macdSeries) < 3 THEN FALSE
    ELSE LET h0 == histogram(macdSeries[Len(macdSeries) - 2])
             h1 == histogram(macdSeries[Len(macdSeries) - 1])
             h2 == histogram(macdSeries[Len(macdSeries)])
             increases == (IF h1 > h0 THEN 1 ELSE 0) + (IF h2 > h1 THEN 1 ELSE 0)
             decreases == (IF h1 < h0 THEN 1 ELSE 0) + (IF h2 < h1 THEN 1 ELSE 0)
         IN IF biasDirection = "LONG"
            THEN h0 > 0 /\ h1 > 0 /\ h2 > 0 /\ increases >= 1
            ELSE IF biasDirection = "SHORT"
            THEN h0 < 0 /\ h1 < 0 /\ h2 < 0 /\ decreases >= 1
            ELSE FALSE

\* a MacdDecision: signal, score, meta.reason, and the gate functions called
MacdDecision(signal, score, reason, gates) ==
    [signal |-> signal, score |-> score, reason |-> reason, gates |-> gates]

Gate1 == "computeDailyBiasFromSeries"
Gate2 == "computeH4Signal"
Gate3 == "confirmH1Histogram"

\* a cascade that goes on to the trigger gate under a neutral bias
computeMacdDecision_NoBiasAbort(d1Candles, h4Candles, h1Candles, fetched) ==
    IF ~fetched THEN MacdDecision("HOLD", 0, "Error", {})
    ELSE IF d1Candles.count < MinCandles
    THEN MacdDecision("HOLD", 0, "Insufficient D1 candles", {})
    ELSE LET d1Bias == computeDailyBiasFromSeries(computeMacdSeries(d1Candles))
         IN IF h4Candles.count < MinCandles
            THEN MacdDecision("HOLD", 0, "Insufficient H4 candles", {Gate1})
            ELSE LET h4Signal == computeH4Signal(computeMacdSeries(h4Candles), d1Bias)
                 IN IF h4Signal.direction = "NONE" \/ ~h4Signal.strengthOk
                    THEN MacdDecision("HOLD", 0, h4Signal.strengthReason,
                                      {Gate1, Gate2})
                    ELSE IF h1Candles.count < MinCandles
                    THEN MacdDecision("HOLD", 0, "Insufficient H1 candles",
                                      {Gate1, Gate2})
                    ELSE IF ~confirmH1Histogram(computeMacdSeries(h1Candles),
                                                h4Signal.direction)
                    THEN MacdDecision("HOLD", 0, "H1 histogram not confirming",
                                      {Gate1, Gate2, Gate3})
                    ELSE MacdDecision(IF h4Signal.direction = "LONG" THEN "BUY"
                                      ELSE "SELL",
                                      MacdScore, "All MACD gates passed",
                                      {Gate1, Gate2, Gate3})

\* computeMacdDecision after its Promise.all: fetched is whether the three
\* fetchCandles all resolved (a rejection goes to the catch)
computeMacdDecision(d1Candles, h4Candles, h1Candles, fetched) ==
    IF ~fetched THEN MacdDecision("HOLD", 0, "Error", {})
    ELSE IF d1Candles.count < MinCandles
    THEN MacdDecision("HOLD", 0, "Insufficient D1 candles", {})
    ELSE LET d1Bias == computeDailyBiasFromSeries(computeMacdSeries(d1Candles))
         IN IF d1Bias = "NEUTRAL"
            THEN MacdDecision("HOLD", 0, "Daily bias neutral", {Gate1})
            ELSE IF h4Candles.count < MinCandles
            THEN MacdDecision("HOLD", 0, "Insufficient H4 candles", {Gate1})
            ELSE LET h4Signal == computeH4Signal(computeMacdSeries(h4Candles), d1Bias)
                 IN IF h4Signal.direction = "NONE" \/ ~h4Signal.strengthOk
                    THEN MacdDecision("HOLD", 0, h4Signal.strengthReason,
                                      {Gate1, Gate2})
                    ELSE IF h1Candles.count < MinCandles
                    THEN MacdDecision("HOLD", 0, "Insufficient H1 candles",
                                      {Gate1, Gate2})
                    ELSE IF ~confirmH1Histogram(computeMacdSeries(h1Candles),
                                                h4Signal.direction)
                    THEN MacdDecision("HOLD", 0, "H1 histogram not confirming",
                                      {Gate1, Gate2, Gate3})
                    ELSE MacdDecision(IF h4Signal.direction = "LONG" THEN "BUY"
                                      ELSE "SELL",
                                      MacdScore, "All MACD gates passed",
                                      {Gate1, Gate2, Gate3})

\* what the exchange can return for the three timeframes (limits 80, 100, 100;
\* a recently listed symbol has fewer candles)
D1_LIMIT == 80
H4_LIMIT == 100
H1_LIMIT == 100
ShortHistory == 25
P0 == Point(0, 0)

D1Inputs ==
    {Candles(ShortHistory, P0, P0, << Point(40, 20) >>),
     Candles(D1_LIMIT \div 2, P0, P0, << Point(40, 20) >>)}
        \cup {Candles(D1_LIMIT, P0, P0, << t >>) :
                 t \in {Point(40, 20), Point(40, 39), Point(20, 0 - 10), P0,
                        Point(0 - 40, 0 - 20), Point(0 - 40, 0 - 39)}}

H4Inputs ==
    {Candles(ShortHistory, Point(10, 12), Point(10, 12), << Point(20, 12) >>),
     Candles(H4_LIMIT - 40, Point(10, 12), Point(10, 12), << Point(20, 12) >>)}
        \cup {Candles(H4_LIMIT, head, base, << t1, t2 >>) :
                 head \in {Point(10, 12), Point(10, 8)},
                 base \in {Point(10, 12), Point(10, 8)},
                 t1 \in {Point(20, 12), Point(9, 8), Point(0, 8), Point(11, 12)},
                 t2 \in {Point(20, 12), Point(9, 8), Point(0, 8), Point(11, 12)}}

H1Inputs ==
    {Candles(ShortHistory, P0, P0, << Point(1, 0), Point(2, 0), Point(3, 0) >>),
     Candles(H1_LIMIT \div 3 + 2, P0, P0, << Point(1, 0), Point(2, 0), Point(3, 0) >>)}
        \cup {Candles(H1_LIMIT, P0, P0, << Point(h[1], 0), Point(h[2], 0), Point(h[3], 0) >>) :
                 h \in {<< 1, 2, 3 >>, << 3, 2, 1 >>, << 1, 3, 2 >>, << 2, 2, 2 >>,
                        << 1, 0 - 1, 2 >>, << 0 - 1, 0 - 2, 0 - 3 >>,
                        << 0 - 3, 0 - 2, 0 - 1 >>, << 0 - 1, 0 - 3, 0 - 2 >>}}

----------------------------------------------------------------------------
(* strategy/simpleStrategy.ts.  Prices and averages are in quote units, time *)
(* in minutes; NoValue stands for an indicator's null.                      *)

NoValue == 0 - 1
CONFIG_CACHE_MS == 1
SlopeLookback == 10

\* a strategy_config row, by the columns computeSignal reads
StrategyRow(id, sma_short_period, buy_score_threshold, sell_score_threshold) ==
    [id |-> id, sma_short_period |-> sma_short_period, sma_long_period |-> 50,
     ema_short_period |-> 12, ema_long_period |-> 26, rsi_period |-> 14,
     rsi_overbought |-> 70, rsi_oversold |-> 30,
     buy_score_threshold |-> buy_score_threshold,
     sell_score_threshold |-> sell_score_threshold]

\* the defaults getStrategyParams returns when no row is active
DefaultStrategy == StrategyRow(0, 20, 6, 0 - 5)
\* no row: getActiveStrategyConfig's null, and cachedConfig's
NoRow == [id |-> 0 - 1]

\* The candles of one symbol, by what the indicators make of them: their
\* number, the last close, and the value each indicator has over them when it
\* has enough candles (smaLongPrevious: SMA(long) without the last 10)
SymbolCandles(length, close, smaShort, smaLong, emaShort, emaLong, rsi, smaLongPrevious) ==
    [length |-> length, close |-> close, smaShort |-> smaShort, smaLong |-> smaLong,
     emaShort |-> emaShort, emaLong |-> emaLong, rsi |-> rsi,
     smaLongPrevious |-> smaLongPrevious]

\* marketData.ts: null under period candles (period + 1 for the RSI)
computeSMA(length, period, value) == IF length < period THEN NoValue ELSE value
computeEMA(length, period, value) == IF length < period THEN NoValue ELSE value
computeRSI(length, period, value) == IF length < period + 1 THEN NoValue ELSE value

Decision(signal, score, reason) == [signal |-> signal, score |-> score, reason |-> reason]

\* a price that is not above both EMAs costs a point
computeSignal_EmaPenalty(candles, params) ==
    LET minCandles == Max(Max(params.sma_long_period, params.ema_long_period),
                          params.rsi_period)
        currentPrice == candles.close
        smaShort == computeSMA(candles.length, params.sma_short_period, candles.smaShort)
        smaLong == computeSMA(candles.length, params.sma_long_period, candles.smaLong)
        emaShort == computeEMA(candles.length, params.ema_short_period, candles.emaShort)
        emaLong == computeEMA(candles.length, params.ema_long_period, candles.emaLong)
        rsi == computeRSI(candles.length, params.rsi_period, candles.rsi)
        sma50Previous == computeSMA(candles.length - SlopeLookback,
                                    params.sma_long_period, candles.smaLongPrevious)
        smaTrend == IF smaShort # NoValue /\ smaLong # NoValue
                    THEN (IF smaShort > smaLong THEN 3
                          ELSE IF smaShort < smaLong THEN 0 - 3 ELSE 0)
                    ELSE 0
        emaMomentum == IF emaShort # NoValue /\ emaLong # NoValue
                       THEN (IF emaShort > emaLong THEN 2
                             ELSE IF emaShort < emaLong THEN 0 - 2 ELSE 0)
                       ELSE 0
        rsiCondition == IF rsi # NoValue
                        THEN (IF rsi < params.rsi_oversold THEN 2
                              ELSE IF rsi > params.rsi_overbought THEN 0 - 2 ELSE 0)
                        ELSE 0
        priceAboveEmas == IF emaShort # NoValue /\ emaLong # NoValue
                          THEN (IF currentPrice > emaShort /\ currentPrice > emaLong
                                THEN 1 ELSE 0 - 1)
                          ELSE 0
        score == smaTrend + emaMomentum + rsiCondition + priceAboveEmas
    IN IF candles.length = 0 THEN Decision("HOLD", 0, "No candle data available")
       ELSE IF candles.length < minCandles
       THEN Decision("HOLD", 0, "Insufficient candles for analysis")
       ELSE IF smaLong # NoValue /\ currentPrice < smaLong
       THEN Decision("HOLD", 0, "Bearish: Price below SMA long")
       ELSE IF smaShort # NoValue /\ currentPrice < smaShort
       THEN Decision("HOLD", 0, "Weak: Price below SMA short")
       ELSE IF smaShort # NoValue /\ smaLong # NoValue /\ smaShort <= smaLong
       THEN Decision("HOLD", 0, "No golden cross")
       ELSE IF emaShort # NoValue /\ emaLong # NoValue /\ emaShort <= emaLong
       THEN Decision("HOLD", 0, "EMA bearish")
       ELSE IF /\ candles.length >= params.sma_long_period + SlopeLookback
               /\ sma50Previous # NoValue /\ smaLong # NoValue
               /\ smaLong * 1000 < sma50Previous * 998
       THEN Decision("HOLD", 0, "SMA long declining")
       ELSE Decision(IF score >= params.buy_score_threshold THEN "BUY"
                     ELSE IF score <= params.sell_score_threshold THEN "SELL"
                     ELSE "HOLD",
                     score, "scored")

\* thresholds compared strictly
computeSignal_Strict(candles, params) ==
    LET minCandles == Max(Max(params.sma_long_period, params.ema_long_period),
                          params.rsi_period)
        currentPrice == candles.close
        smaShort == computeSMA(candles.length, params.sma_short_period, candles.smaShort)
        smaLong == computeSMA(candles.length, params.sma_long_period, candles.smaLong)
        emaShort == computeEMA(candles.length, params.ema_short_period, candles.emaShort)
        emaLong == computeEMA(candles.length, params.ema_long_period, candles.emaLong)
        rsi == computeRSI(candles.length, params.rsi_period, candles.rsi)
        sma50Previous == computeSMA(candles.length - SlopeLookback,
                                    params.sma_long_period, candles.smaLongPrevious)
        smaTrend == IF smaShort # NoValue /\ smaLong # NoValue
                    THEN (IF smaShort > smaLong THEN 3
                          ELSE IF smaShort < smaLong THEN 0 - 3 ELSE 0)
                    ELSE 0
        emaMomentum == IF emaShort # NoValue /\ emaLong # NoValue
                       THEN (IF emaShort > emaLong THEN 2
                             ELSE IF emaShort < emaLong THEN 0 - 2 ELSE 0)
                       ELSE 0
        rsiCondition == IF rsi # NoValue
                        THEN (IF rsi < params.rsi_oversold THEN 2
                              ELSE IF rsi > params.rsi_overbought THEN 0 - 2 ELSE 0)
                        ELSE 0
        priceAboveEmas == IF /\ emaShort # NoValue /\ emaLong # NoValue
                             /\ currentPrice > emaShort /\ currentPrice > emaLong
                          THEN 1 ELSE 0
        score == smaTrend + emaMomentum + rsiCondition + priceAboveEmas
    IN IF candles.length = 0 THEN Decision("HOLD", 0, "No candle data available")
       ELSE IF candles.length < minCandles
       THEN Decision("HOLD", 0, "Insufficient candles for analysis")
       ELSE IF smaLong # NoValue /\ currentPrice < smaLong
       THEN Decision("HOLD", 0, "Bearish: Price below SMA long")
       ELSE IF smaShort # NoValue /\ currentPrice < smaShort
       THEN Decision("HOLD", 0, "Weak: Price below SMA short")
       ELSE IF smaShort # NoValue /\ smaLong # NoValue /\ smaShort <= smaLong
       THEN Decision("HOLD", 0, "No golden cross")
       ELSE IF emaShort # NoValue /\ emaLong # NoValue /\ emaShort <= emaLong
       THEN Decision("HOLD", 0, "EMA bearish")
       ELSE IF /\ candles.length >= params.sma_long_period + SlopeLookback
               /\ sma50Previous # NoValue /\ smaLong # NoValue
               /\ smaLong * 1000 < sma50Previous * 998
       THEN Decision("HOLD", 0, "SMA long declining")
       ELSE Decision(IF score > params.buy_score_threshold THEN "BUY"
                     ELSE IF score < params.sell_score_threshold THEN "SELL"
                     ELSE "HOLD",
                     score, "scored")

\* computeSignal once it has its params.  sma50Previous * 0.998 is compared
\* times 1000
computeSignal(candles, params) ==
    LET minCandles == Max(Max(params.sma_long_period, params.ema_long_period),
                          params.rsi_period)
        currentPrice == candles.close
        smaShort == computeSMA(candles.length, params.sma_short_period, candles.smaShort)
        smaLong == computeSMA(candles.length, params.sma_long_period, candles.smaLong)
        emaShort == computeEMA(candles.length, params.ema_short_period, candles.emaShort)
        emaLong == computeEMA(candles.length, params.ema_long_period, candles.emaLong)
        rsi == computeRSI(candles.length, params.rsi_period, candles.rsi)
        sma50Previous == computeSMA(candles.length - SlopeLookback,
                                    params.sma_long_period, candles.smaLongPrevious)
        smaTrend == IF smaShort # NoValue /\ smaLong # NoValue
                    THEN (IF smaShort > smaLong THEN 3
                          ELSE IF smaShort < smaLong THEN 0 - 3 ELSE 0)
                    ELSE 0
        emaMomentum == IF emaShort # NoValue /\ emaLong # NoValue
                       THEN (IF emaShort > emaLong THEN 2
                             ELSE IF emaShort < emaLong THEN 0 - 2 ELSE 0)
                       ELSE 0
        rsiCondition == IF rsi # NoValue
                        THEN (IF rsi < params.rsi_oversold THEN 2
                              ELSE IF rsi > params.rsi_overbought THEN 0 - 2 ELSE 0)
                        ELSE 0
        priceAboveEmas == IF /\ emaShort # NoValue /\ emaLong # NoValue
                             /\ currentPrice > emaShort /\ currentPrice > emaLong
                          THEN 1 ELSE 0
        score == smaTrend + emaMomentum + rsiCondition + priceAboveEmas
    IN IF candles.length = 0 THEN Decision("HOLD", 0, "No candle data available")
       ELSE IF candles.length < minCandles
       THEN Decision("HOLD", 0, "Insufficient candles for analysis")
       ELSE IF smaLong # NoValue /\ currentPrice < smaLong
       THEN Decision("HOLD", 0, "Bearish: Price below SMA long")
       ELSE IF smaShort # NoValue /\ currentPrice < smaShort
       THEN Decision("HOLD", 0, "Weak: Price below SMA short")
       ELSE IF smaShort # NoValue /\ smaLong # NoValue /\ smaShort <= smaLong
       THEN Decision("HOLD", 0, "No golden cross")
       ELSE IF emaShort # NoValue /\ emaLong # NoValue /\ emaShort <= emaLong
       THEN Decision("HOLD", 0, "EMA bearish")
       ELSE IF /\ candles.length >= params.sma_long_period + SlopeLookback
               /\ sma50Previous # NoValue /\ smaLong # NoValue
               /\ smaLong * 1000 < sma50Previous * 998
       THEN Decision("HOLD", 0, "SMA long declining")
       ELSE Decision(IF score >= params.buy_score_threshold THEN "BUY"
                     ELSE IF score <= params.sell_score_threshold THEN "SELL"
                     ELSE "HOLD",
                     score, "scored")

\* a cache that never expires
cacheFresh_NoExpiry(cache, t) == cache.cachedConfig # NoRow

\* getStrategyParams: cachedConfig && now - configLastFetch < CONFIG_CACHE_MS
cacheFresh(cache, t) ==
    cache.cachedConfig # NoRow /\ t - cache.configLastFetch < CONFIG_CACHE_MS

\* the candles the loop hands to computeSignal
SignalInputs ==
    {SymbolCandles(length, 105, 103, 99, 102, 101, 50, 99) : length \in {0, 30}}
        \cup {SymbolCandles(length, close, smaShort, smaLong, emaShort, 101, rsi,
                            smaLongPrevious) :
                  length \in {55, 70}, close \in {101, 105}, smaShort \in {100, 103},
                  smaLong \in {99, 104}, emaShort \in {100, 102, 106},
                  rsi \in {20, 50, 80}, smaLongPrevious \in {99, 110}}

\* candles that pass every filter
RisingCandles == SymbolCandles(70, 105, 103, 99, 102, 101, 50, 99)

\* bodies of PUT /strategy/:name: sma_short_period and the two thresholds
StrategyBodies == {<< 20, 6, 0 - 5 >>, << 20, 6, 3 >>, << 20, 3, 6 >>, << 60, 6, 0 >>}

----------------------------------------------------------------------------
(* Values of the loop's locals when they hold nothing *)

NoTrailing == [enabled |-> FALSE, activation |-> 0, distance |-> 0]
NoSell == [id |-> 0, symbol |-> NULL, quantity |-> 0, price |-> 0, closeReason |-> NULL,
           orderId |-> 0]
NoBuy == [symbol |-> NULL, currentPrice |-> 0, quantity |-> 0, stopLossPrice |-> 0,
          takeProfitPrice |-> 0, trailing_stop_enabled |-> FALSE, orderId |-> 0]
NoResult == [symbol |-> NULL, success |-> FALSE, reason |-> NULL]
NoLookup == [symbol |-> NULL, at |-> 0, entry |-> NoEntry, result |-> FALSE,
             after |-> NoEntry]
NoClose == [pc |-> "idle", id |-> 0, symbol |-> NULL, quantity |-> 0, price |-> 0,
            orderId |-> 0]
NoFetch == [successful |-> << >>, failed |-> {}]
\* placed: the orders the exchange has accepted from the requests of the call
\* (the call being createOrder)
NoRetry == [pc |-> "idle", attempt |-> 0, calls |-> 0, lastError |-> NoError,
            placed |-> 0]
\* readAt: when the cached row was read from the table; fetchedAt: when
\* getActiveStrategyConfig was last called (NoValue: never)
NoCache == [cachedConfig |-> NoRow, configLastFetch |-> 0, readAt |-> 0,
            fetchedAt |-> NoValue]
\* a computeSignal call: started is the now of getStrategyParams, row what the
\* query returned and readAt when, config the parameters the call works with
NoCall == [pc |-> "idle"]
Call(pc_, candles, started) ==
    [pc |-> pc_, candles |-> candles, started |-> started, row |-> NoRow, readAt |-> 0,
     config |-> NoRow, waited |-> FALSE, decision |-> Decision(NULL, 0, NULL)]
Calls == {1, 2}
NoMacd == [pc |-> "idle"]

\* what the signal engine can hand to executeDecisions for one symbol
DecisionChoices ==
    {[signal |-> "HOLD", score |-> 0], [signal |-> "SELL", score |-> 0 - 5]}
        \cup {[signal |-> "BUY", score |-> sc] : sc \in Scores}

\* one decision for each symbol whose candles were handed over, in their order
decisionBatch(symbols, choice, price) ==
    [i \in 1..Len(symbols) |->
        [symbol |-> symbols[i], signal |-> choice[symbols[i]].signal,
         score |-> choice[symbols[i]].score, currentPrice |-> price]]

\* Promise.all in place of Promise.allSettled: one rejection loses every symbol
fetchMultiSymbolCandles_AllOrNothing(symbols, rejected) ==
    LET failedOf == {symbols[i] : i \in 1..Len(symbols)} \cap rejected
    IN [successful |-> IF failedOf = {} THEN symbols ELSE << >>, failed |-> failedOf]

\* marketData.ts: fetchMultiSymbolCandles, by the symbols whose fetch rejected:
\* the fulfilled results are pushed to successful in the order of symbols, the
\* rejected ones to failed
fetchMultiSymbolCandles(symbols, rejected) ==
    LET fulfilled(s) == s \notin rejected
    IN [successful |-> SelectSeq(symbols, fulfilled),
        failed |-> {symbols[i] : i \in 1..Len(symbols)} \cap rejected]

----------------------------------------------------------------------------
(* Startup (index.ts) *)

Init ==
    /\ config \in [TRADING_ENABLED : BOOLEAN, BOT_KILL_SWITCH : BOOLEAN]
    /\ \E ks \in {NULL, "true"} :
          bot_state = initBotState([k \in StateKeys |->
                                       IF k = "KILL_SWITCH" THEN ks ELSE NULL], config)
    /\ positions = << >>
    /\ orders = << >>
    /\ exchange = << >>
    /\ cooldownMap = [s \in Symbols |-> NoEntry]
    /\ now = 0
    /\ isRunning = FALSE
    /\ shouldStop = FALSE
    /\ pc = "idle"
    /\ openPositions = << >>
    /\ trailing = NoTrailing
    /\ checkedPrice = 0
    /\ sellJob = NoSell
    /\ decisions = << >>
    /\ buyJob = NoBuy
    /\ lastResult = NoResult
    /\ lookup = NoLookup
    /\ monitored = FALSE
    /\ closeReq = NoClose
    /\ candleFetch = NoFetch
    /\ retry = NoRetry
    /\ macd = NoMacd
    /\ strategy_config = StrategyRow(1, 20, 6, 0 - 5)
    /\ configCache = NoCache
    /\ signalCall = [c \in Calls |-> NoCall]
    /\ sizingError = NULL

----------------------------------------------------------------------------
(* botRunner.ts: runBot, stopBot, and POST /bot/start, /bot/stop *)

Start_NoGuard ==
    /\ isRunning' = TRUE
    /\ shouldStop' = FALSE
    /\ pc' = "discover"
    /\ UNCHANGED << config, bot_state, positions, orders, exchange, cooldownMap, now,
                    openPositions, trailing, checkedPrice, sellJob, decisions, buyJob,
                    lastResult, lookup, candleFetch, monitored, closeReq, libVars >>

\* POST /bot/start and the entry of runBot: both test isRunning, and runBot
\* sets it before its first await
Start ==
    /\ ~isRunning
    /\ isRunning' = TRUE
    /\ shouldStop' = FALSE
    /\ pc' = "discover"
    /\ UNCHANGED << config, bot_state, positions, orders, exchange, cooldownMap, now,
                    openPositions, trailing, checkedPrice, sellJob, decisions, buyJob, lastResult,
                    lookup, candleFetch, monitored, closeReq, libVars >>

Stop ==
    /\ isRunning
    /\ shouldStop' = TRUE
    /\ UNCHANGED << config, bot_state, positions, orders, exchange, cooldownMap, now,
                    isRunning, loopVars, lastResult, lookup, closeReq, libVars >>

\* await getTradeSymbols(client, config) before the loop: it returns or throws
Discover ==
    /\ pc = "discover"
    /\ \/ pc' = "head"
       \/ pc' = "crashed"
    /\ UNCHANGED << config, bot_state, positions, orders, exchange, cooldownMap, now,
                    isRunning, shouldStop, openPositions, trailing, checkedPrice, sellJob, decisions,
                    buyJob, lastResult, lookup, candleFetch, monitored, closeReq, libVars >>

\* while (!shouldStop) { ... }  isRunning = false
LoopHead ==
    /\ pc = "head"
    /\ IF shouldStop
       THEN /\ isRunning' = FALSE
            /\ pc' = "idle"
            /\ monitored' = FALSE
       ELSE /\ isRunning' = isRunning
            /\ pc' = "gate"
            /\ monitored' = FALSE
    /\ UNCHANGED << config, bot_state, positions, orders, exchange, cooldownMap, now,
                    shouldStop, openPositions, trailing, checkedPrice, sellJob, decisions, buyJob,
                    lastResult, lookup, candleFetch, closeReq, libVars >>

\* const tradingCheck = await checkGlobalTrading();
\* if (!tradingCheck.allowed) { await sleep(LOOP_MS); continue; }
Gate ==
    /\ pc = "gate"
    /\ pc' = IF checkGlobalTrading(bot_state).allowed THEN "monitor" ELSE "sleep"
    /\ UNCHANGED << config, bot_state, positions, orders, exchange, cooldownMap, now,
                    isRunning, shouldStop, openPositions, trailing, checkedPrice, sellJob, decisions,
                    buyJob, lastResult, lookup, candleFetch, monitored, closeReq, libVars >>

CatchError_Rethrow ==
    /\ pc \in {"gate", "monitor", "fetch", "signals"}
    /\ pc' = "crashed"
    /\ checkedPrice' = 0
    /\ candleFetch' = NoFetch
    /\ UNCHANGED << config, bot_state, positions, orders, exchange, cooldownMap, now,
                    isRunning, shouldStop, openPositions, trailing, sellJob, decisions,
                    buyJob, lastResult, lookup, monitored, closeReq, libVars >>

\* } catch (error) { log.error(...); await sleep(config.LOOP_MS); }
\* for an error thrown by checkGlobalTrading or getTradeSymbols, by
\* getOpenPositions or getActiveStrategyConfig at the top of monitorPositions,
\* or by the candle fetch or the signal computation
CatchError ==
    /\ pc \in {"gate", "monitor", "fetch", "signals"}
    /\ pc' = "sleep"
    /\ checkedPrice' = 0
    /\ candleFetch' = NoFetch
    /\ UNCHANGED << config, bot_state, positions, orders, exchange, cooldownMap, now,
                    isRunning, shouldStop, openPositions, trailing, sellJob, decisions,
                    buyJob, lastResult, lookup, monitored, closeReq, libVars >>

\* await sleep(...): the iteration's locals (results among them) are gone
Sleep ==
    /\ pc = "sleep"
    /\ pc' = "head"
    /\ lastResult' = NoResult
    /\ candleFetch' = NoFetch
    /\ UNCHANGED << config, bot_state, positions, orders, exchange, cooldownMap, now,
                    isRunning, shouldStop, openPositions, trailing, checkedPrice, sellJob, decisions,
                    buyJob, lookup, monitored, closeReq, libVars >>

----------------------------------------------------------------------------
(* positionMonitor.ts: monitorPositions, checkPosition, executeSellOrder *)

\* the for loop of monitorPositions moves on to the next row it read
nextPosition(rest) ==
    /\ openPositions' = rest
    /\ sellJob' = NoSell
    /\ pc' = IF rest = << >> THEN "fetch" ELSE "check"
    /\ trailing' = IF rest = << >> THEN NoTrailing ELSE trailing

\* getOpenPositions() and getActiveStrategyConfig() at the top of the pass
MonitorPositions ==
    /\ pc = "monitor"
    /\ monitored' = TRUE
    /\ LET rows == getOpenPositions(positions)
       IN /\ openPositions' = rows
          /\ IF rows = << >>
             THEN /\ pc' = "fetch"
                  /\ trailing' = NoTrailing
             ELSE /\ pc' = "check"
                  /\ \E en \in BOOLEAN, dist \in TrailingDistances :
                        trailing' = [enabled |-> en,
                                     activation |-> TRAILING_STOP_ACTIVATION_PERCENT,
                                     distance |-> dist]
    /\ UNCHANGED << config, bot_state, positions, orders, exchange, cooldownMap, now,
                    isRunning, shouldStop, checkedPrice, sellJob, decisions, buyJob,
                    lastResult, lookup, candleFetch, closeReq, libVars >>

\* checkPosition on the row read at the top of the pass, up to the point where
\* executeSellOrder has read its own ticker price and the symbol's filters
CheckPosition ==
    /\ pc = "check"
    /\ LET position == Head(openPositions)
           rest == Tail(openPositions)
       IN \E price \in TickerPrices, sellPrice \in TickerPrices :
            LET updated == updatePositionPrice(positions, position.id, price, price)
                exit == checkExit(position, price)
                trail == checkTrailingStop(position, price,
                                           trailing.activation, trailing.distance)
            IN /\ checkedPrice' = price
               /\ IF exit # "NONE"
                  THEN /\ positions' = updated
                       /\ sellJob' = [id |-> position.id,
                                      symbol |-> position.symbol,
                                      quantity |-> position.quantity,
                                      price |-> sellPrice,
                                      closeReason |-> exit, orderId |-> 0]
                       /\ pc' = "sell"
                       /\ UNCHANGED << openPositions, trailing >>
                  ELSE /\ positions' =
                             IF /\ position.trailing_stop_enabled
                                /\ trailing.enabled
                                /\ trail.write
                             THEN updatePositionStopLoss(updated, position.id, trail.stop)
                             ELSE updated
                       /\ nextPosition(rest)
    /\ UNCHANGED << config, bot_state, orders, exchange, cooldownMap, now, isRunning,
                    shouldStop, decisions, buyJob, lastResult, lookup, candleFetch, monitored,
                    closeReq, libVars >>

\* executeSellOrder with no try around checkPosition in the for loop of
\* monitorPositions: a rejected order ends the pass
SellOrder_AbortPass ==
    /\ pc = "sell"
    /\ \/ /\ ~sellBlocked(sellJob.quantity, sellJob.price)
          /\ exchange' = Append(exchange,
                                [orderId |-> Len(exchange) + 1, symbol |-> sellJob.symbol,
                                 side |-> "SELL", qty |-> sellJob.quantity,
                                 position |-> sellJob.id])
          /\ sellJob' = [sellJob EXCEPT !.orderId = Len(exchange) + 1, !.price = 0]
          /\ pc' = "persistExit"
          /\ UNCHANGED << openPositions, trailing >>
       \/ /\ sellBlocked(sellJob.quantity, sellJob.price)
          /\ nextPosition(Tail(openPositions))
          /\ UNCHANGED exchange
       \/ /\ ~sellBlocked(sellJob.quantity, sellJob.price)
          /\ openPositions' = << >>
          /\ sellJob' = NoSell
          /\ trailing' = NoTrailing
          /\ pc' = "sleep"
          /\ UNCHANGED exchange
    /\ UNCHANGED << config, bot_state, positions, orders, cooldownMap, now, isRunning,
                    shouldStop, checkedPrice, decisions, buyJob, lastResult, lookup, candleFetch,
                    monitored, closeReq, libVars >>

\* executeSellOrder: the minQty and minNotional guards return without an
\* order; otherwise await client.createOrder(request): the exchange accepts
\* the order, or rejects it and the error is caught in monitorPositions
SellOrder ==
    /\ pc = "sell"
    /\ \/ /\ ~sellBlocked(sellJob.quantity, sellJob.price)
          /\ exchange' = Append(exchange,
                                [orderId |-> Len(exchange) + 1, symbol |-> sellJob.symbol,
                                 side |-> "SELL", qty |-> sellJob.quantity,
                                 position |-> sellJob.id])
          /\ sellJob' = [sellJob EXCEPT !.orderId = Len(exchange) + 1, !.price = 0]
          /\ pc' = "persistExit"
          /\ UNCHANGED << openPositions, trailing >>
       \/ /\ nextPosition(Tail(openPositions))
          /\ UNCHANGED exchange
    /\ UNCHANGED << config, bot_state, positions, orders, cooldownMap, now, isRunning,
                    shouldStop, checkedPrice, decisions, buyJob, lastResult, lookup, candleFetch,
                    monitored, closeReq, libVars >>

\* executeSellOrder: insertOrder, closePosition, addSymbolCooldown
PersistExit ==
    /\ pc = "persistExit"
    /\ orders' = insertOrder(orders, sellJob.symbol, "SELL", sellJob.quantity,
                             sellJob.orderId)
    /\ positions' = closePosition(positions, sellJob.id, sellJob.orderId,
                                  sellJob.closeReason)
    /\ cooldownMap' = addSymbolCooldown(cooldownMap, sellJob.symbol,
                                        exitCooldownReason(sellJob.closeReason), now)
    /\ nextPosition(Tail(openPositions))
    /\ UNCHANGED << config, bot_state, exchange, now, isRunning, shouldStop,
                    checkedPrice, decisions, buyJob, lastResult, lookup, candleFetch, monitored,
                    closeReq, libVars >>

\* executeSellOrder after the exchange accepted the order: insertOrder rejects,
\* or insertOrder succeeds and closePosition rejects.  The error is rethrown
\* (line 276-279) and caught by the try of monitorPositions, which goes on to
\* the next position.
PersistExitFails ==
    /\ pc = "persistExit"
    /\ Len(exchange) <= MaxOrders
    /\ \/ orders' = orders
       \/ orders' = insertOrder(orders, sellJob.symbol, "SELL", sellJob.quantity,
                                sellJob.orderId)
    /\ nextPosition(Tail(openPositions))
    /\ UNCHANGED << config, bot_state, positions, exchange, cooldownMap, now, isRunning,
                    shouldStop, checkedPrice, decisions, buyJob, lastResult, lookup,
                    candleFetch, monitored, closeReq, libVars >>

----------------------------------------------------------------------------
(* botRunner.ts: market data and signals; executor.ts: executeDecisions *)

\* symbolCandles = await fetchMultiSymbolCandles(client, currentSymbols, ...);
\* if (symbolCandles.length === 0) { await sleep(LOOP_MS); continue; }
FetchCandles(symbols) ==
    /\ pc = "fetch"
    /\ \E rejected \in SUBSET {symbols[i] : i \in 1..Len(symbols)} :
          LET result == fetchMultiSymbolCandles(symbols, rejected)
          IN /\ candleFetch' = result
             /\ pc' = IF result.successful = << >> THEN "sleep" ELSE "signals"
    /\ checkedPrice' = 0
    /\ UNCHANGED << config, bot_state, positions, orders, exchange, cooldownMap, now,
                    isRunning, shouldStop, openPositions, trailing, sellJob, decisions,
                    buyJob, lastResult, lookup, monitored, closeReq, libVars >>

\* the signal engine on symbolCandles, and the test that starts executeDecisions
ComputeSignals ==
    /\ pc = "signals"
    /\ \E choice \in [{candleFetch.successful[i] :
                          i \in 1..Len(candleFetch.successful)} -> DecisionChoices],
          price \in EntryPrices :
          LET batch == decisionBatch(candleFetch.successful, choice, price)
          IN IF \E i \in 1..Len(batch) : batch[i].signal \in {"BUY", "SELL"}
             THEN /\ decisions' = batch
                  /\ pc' = "exec"
             ELSE /\ decisions' = << >>
                  /\ pc' = "sleep"
    /\ UNCHANGED << config, bot_state, positions, orders, exchange, cooldownMap, now,
                    isRunning, shouldStop, openPositions, trailing, checkedPrice, sellJob,
                    buyJob, lastResult, lookup, monitored, closeReq, candleFetch, libVars >>

\* the for loop of executeDecisions moves on to the next decision
nextDecision(rest) ==
    /\ decisions' = rest
    /\ buyJob' = NoBuy
    /\ pc' = IF rest = << >> THEN "sleep" ELSE "exec"

\* executeBuyOrder up to the point where the order is sent.  The calls it
\* awaits outside its try block (getActiveStrategyConfig, getAccountInfo,
\* getSymbolFilters, validateOrder) can fail, and calculateOrderQuantity can
\* throw: the error leaves executeDecisions and is caught by the loop.
ExecuteBuy(strategies) ==
    /\ pc = "exec"
    /\ Head(decisions).signal = "BUY"
    /\ LET decision == Head(decisions)
       IN \E baseBalance \in Balances, strategy \in strategies, fails \in BOOLEAN :
            LET out == executeBuyOrder(decision, cooldownMap, now, bot_state,
                                       positions, baseBalance, strategy)
                onCooldown == isSymbolOnCooldown(cooldownMap, decision.symbol, now).result
            IN /\ cooldownMap' = out.map
               /\ sizingError' = IF out.throws THEN out.reason ELSE sizingError
               /\ IF out.throws \/ (fails /\ ~onCooldown)
                  THEN /\ decisions' = << >>
                       /\ buyJob' = NoBuy
                       /\ pc' = "sleep"
                       /\ UNCHANGED lastResult
                  ELSE IF out.proceed
                  THEN /\ buyJob' = [symbol |-> decision.symbol,
                                     currentPrice |-> decision.currentPrice,
                                     quantity |-> out.quantity,
                                     stopLossPrice |-> out.stopLossPrice,
                                     takeProfitPrice |-> out.takeProfitPrice,
                                     trailing_stop_enabled |-> TRAILING_STOP_ENABLED,
                                     orderId |-> 0]
                       /\ pc' = "submit"
                       /\ UNCHANGED << decisions, lastResult >>
                  ELSE /\ lastResult' = [symbol |-> decision.symbol, success |-> FALSE,
                                         reason |-> out.reason]
                       /\ nextDecision(Tail(decisions))
    /\ UNCHANGED << config, bot_state, positions, orders, exchange, now, isRunning,
                    shouldStop, openPositions, trailing, checkedPrice, sellJob, lookup, candleFetch,
                    monitored, closeReq, retry, macd,
                    strategy_config, configCache, signalCall >>

SubmitBuy_PersistOnReject(maxPositions) ==
    /\ pc = "submit"
    /\ pc' = "persistBuy"
    /\ \/ /\ Len(positions) < maxPositions
          /\ exchange' = Append(exchange,
                                [orderId |-> Len(exchange) + 1, symbol |-> buyJob.symbol,
                                 side |-> "BUY", qty |-> buyJob.quantity, position |-> 0])
          /\ buyJob' = [buyJob EXCEPT !.orderId = Len(exchange) + 1]
       \/ UNCHANGED << exchange, buyJob >>
    /\ UNCHANGED << config, bot_state, positions, orders, cooldownMap, now, isRunning,
                    shouldStop, openPositions, trailing, checkedPrice, sellJob, lookup,
                    candleFetch, monitored, closeReq, decisions, lastResult, libVars >>

\* executeBuyOrder: await client.createOrder(request) inside the try block
SubmitBuy(maxPositions) ==
    /\ pc = "submit"
    /\ \/ /\ Len(positions) < maxPositions
          /\ exchange' = Append(exchange,
                                [orderId |-> Len(exchange) + 1, symbol |-> buyJob.symbol,
                                 side |-> "BUY", qty |-> buyJob.quantity, position |-> 0])
          /\ buyJob' = [buyJob EXCEPT !.orderId = Len(exchange) + 1]
          /\ pc' = "persistBuy"
          /\ UNCHANGED << decisions, lastResult >>
       \/ /\ lastResult' = [symbol |-> buyJob.symbol, success |-> FALSE,
                            reason |-> "Order rejected by exchange"]
          /\ nextDecision(Tail(decisions))
          /\ UNCHANGED exchange
    /\ UNCHANGED << config, bot_state, positions, orders, cooldownMap, now, isRunning,
                    shouldStop, openPositions, trailing, checkedPrice, sellJob, lookup, candleFetch, monitored,
                    closeReq, libVars >>

\* executeBuyOrder: insertOrder and createPosition
PersistBuy ==
    /\ pc = "persistBuy"
    /\ orders' = insertOrder(orders, buyJob.symbol, "BUY", buyJob.quantity,
                             buyJob.orderId)
    /\ positions' = createPosition(positions,
          [id |-> 0, symbol |-> buyJob.symbol,
           entry_price |-> buyJob.currentPrice,
           quantity |-> buyJob.quantity,
           stop_loss_price |-> buyJob.stopLossPrice,
           take_profit_price |-> buyJob.takeProfitPrice,
           initial_stop_loss_price |-> buyJob.stopLossPrice,
           highest_price |-> buyJob.currentPrice,
           trailing_stop_enabled |-> buyJob.trailing_stop_enabled,
           status |-> "OPEN",
           entry_order_id |-> buyJob.orderId,
           exit_order_id |-> 0])
    /\ lastResult' = [symbol |-> buyJob.symbol, success |-> TRUE,
                      reason |-> "Order placed successfully"]
    /\ nextDecision(Tail(decisions))
    /\ UNCHANGED << config, bot_state, exchange, cooldownMap, now, isRunning,
                    shouldStop, openPositions, trailing, checkedPrice, sellJob, lookup, candleFetch, monitored,
                    closeReq, libVars >>

\* executeBuyOrder after the exchange accepted the order: insertOrder rejects,
\* or insertOrder succeeds and createPosition rejects.  The catch of
\* executeBuyOrder returns the error message as a failure result.
PersistBuyFails ==
    /\ pc = "persistBuy"
    /\ Len(exchange) <= MaxOrders
    /\ \/ orders' = orders
       \/ orders' = insertOrder(orders, buyJob.symbol, "BUY", buyJob.quantity,
                                buyJob.orderId)
    /\ lastResult' = [symbol |-> buyJob.symbol, success |-> FALSE,
                      reason |-> "Database error"]
    /\ nextDecision(Tail(decisions))
    /\ UNCHANGED << config, bot_state, positions, exchange, cooldownMap, now, isRunning,
                    shouldStop, openPositions, trailing, checkedPrice, sellJob, lookup,
                    candleFetch, monitored, closeReq, libVars >>

\* executeDecisions: a SELL decision is answered 'SELL logic not implemented',
\* a HOLD decision is passed over
ExecuteOther ==
    /\ pc = "exec"
    /\ Head(decisions).signal # "BUY"
    /\ lastResult' = IF Head(decisions).signal = "SELL"
                     THEN [symbol |-> Head(decisions).symbol, success |-> FALSE,
                           reason |-> "SELL logic not implemented"]
                     ELSE lastResult
    /\ nextDecision(Tail(decisions))
    /\ UNCHANGED << config, bot_state, positions, orders, exchange, cooldownMap, now,
                    isRunning, shouldStop, openPositions, trailing, checkedPrice,
                    sellJob, lookup, candleFetch, monitored, closeReq, libVars >>

----------------------------------------------------------------------------
(* routes/v1/bot.ts: the administrative routes *)

\* POST /positions/:id/close: getPositionById and the test of its status.
\* The route reads no price: price is the market's when its order is sent.
CloseRead(id) ==
    /\ closeReq.pc = "idle"
    /\ id \in 1..Len(positions)
    /\ positions[id].status = "OPEN"
    /\ \E price \in TickerPrices :
          closeReq' = [pc |-> "order", id |-> id, symbol |-> positions[id].symbol,
                       quantity |-> positions[id].quantity, price |-> price,
                       orderId |-> 0]
    /\ UNCHANGED << config, bot_state, positions, orders, exchange, cooldownMap, now,
                    isRunning, shouldStop, loopVars, lastResult, lookup, libVars >>

\* POST /positions/:id/close: await binanceClient.createOrder(request)
CloseOrder ==
    /\ closeReq.pc = "order"
    /\ \/ /\ exchange' = Append(exchange,
                                [orderId |-> Len(exchange) + 1,
                                 symbol |-> closeReq.symbol, side |-> "SELL",
                                 qty |-> closeReq.quantity, position |-> closeReq.id])
          /\ closeReq' = [closeReq EXCEPT !.pc = "persist", !.price = 0,
                                          !.orderId = Len(exchange) + 1]
       \/ /\ closeReq' = NoClose
          /\ UNCHANGED exchange
    /\ UNCHANGED << config, bot_state, positions, orders, cooldownMap, now, isRunning,
                    shouldStop, loopVars, lastResult, lookup, libVars >>

\* POST /positions/:id/close: insertOrder and closePosition(id, orderId, 'CLOSED')
ClosePersist ==
    /\ closeReq.pc = "persist"
    /\ orders' = insertOrder(orders, closeReq.symbol, "SELL", closeReq.quantity,
                             closeReq.orderId)
    /\ positions' = closePosition(positions, closeReq.id, closeReq.orderId, "CLOSED")
    /\ closeReq' = NoClose
    /\ UNCHANGED << config, bot_state, exchange, cooldownMap, now, isRunning,
                    shouldStop, loopVars, lastResult, lookup, libVars >>

\* POST /positions/:id/close after the exchange accepted the order: insertOrder
\* rejects, or insertOrder succeeds and closePosition rejects; the route
\* answers 500
ClosePersistFails ==
    /\ closeReq.pc = "persist"
    /\ Len(exchange) <= MaxOrders
    /\ \/ orders' = orders
       \/ orders' = insertOrder(orders, closeReq.symbol, "SELL", closeReq.quantity,
                                closeReq.orderId)
    /\ closeReq' = NoClose
    /\ UNCHANGED << config, bot_state, positions, exchange, cooldownMap, now, isRunning,
                    shouldStop, loopVars, lastResult, lookup, libVars >>

\* PATCH /positions/:id/stop-loss
UpdateStopLoss(id, stop_loss_price) ==
    /\ id \in 1..Len(positions)
    /\ positions[id].status = "OPEN"
    /\ positions' = updatePositionStopLoss(positions, id, stop_loss_price)
    /\ UNCHANGED << config, bot_state, orders, exchange, cooldownMap, now, isRunning,
                    shouldStop, loopVars, lastResult, lookup, closeReq, libVars >>

\* DELETE /cooldowns/:symbol
RemoveCooldown(symbol) ==
    /\ cooldownMap' = removeCooldown(cooldownMap, symbol)
    /\ UNCHANGED << config, bot_state, positions, orders, exchange, now, isRunning,
                    shouldStop, loopVars, lastResult, lookup, closeReq, libVars >>

\* DELETE /cooldowns
ClearAllCooldowns ==
    /\ cooldownMap' = clearAllCooldowns(cooldownMap)
    /\ UNCHANGED << config, bot_state, positions, orders, exchange, now, isRunning,
                    shouldStop, loopVars, lastResult, lookup, closeReq, libVars >>

\* GET /cooldowns
GetActiveCooldowns ==
    /\ cooldownMap' = getActiveCooldowns(cooldownMap, now)
    /\ UNCHANGED << config, bot_state, positions, orders, exchange, now, isRunning,
                    shouldStop, loopVars, lastResult, lookup, closeReq, libVars >>

----------------------------------------------------------------------------
(* symbolCooldown.ts called on its own *)

\* addSymbolCooldown(symbol, reason) at the present time
AddSymbolCooldown(symbol, reason) ==
    /\ cooldownMap' = addSymbolCooldown(cooldownMap, symbol, reason, now)
    /\ UNCHANGED << config, bot_state, positions, orders, exchange, now, isRunning,
                    shouldStop, loopVars, lastResult, lookup, closeReq, libVars >>

\* isSymbolOnCooldown(symbol) at the present time; lookup keeps what the call
\* found, what it returned and what it left in the map
IsSymbolOnCooldown(symbol) ==
    /\ LET out == isSymbolOnCooldown(cooldownMap, symbol, now)
       IN /\ cooldownMap' = out.map
          /\ lookup' = [symbol |-> symbol, at |-> now, entry |-> cooldownMap[symbol],
                        result |-> out.result, after |-> out.map[symbol]]
    /\ UNCHANGED << config, bot_state, positions, orders, exchange, now, isRunning,
                    shouldStop, loopVars, lastResult, closeReq, libVars >>

\* the clock
Tick(step) ==
    /\ now + step <= MaxNow
    /\ now' = now + step
    /\ UNCHANGED << config, bot_state, positions, orders, exchange, cooldownMap,
                    isRunning, shouldStop, loopVars, lastResult, lookup, closeReq, libVars >>

----------------------------------------------------------------------------

\* the loop task with the symbols it trades and the number of positions the
\* model lets it open
LoopTask(symbols, maxPositions, strategies) ==
    \/ Discover
    \/ LoopHead
    \/ Gate
    \/ CatchError
    \/ Sleep
    \/ MonitorPositions
    \/ CheckPosition
    \/ SellOrder
    \/ PersistExit
    \/ FetchCandles(symbols)
    \/ ComputeSignals
    \/ ExecuteBuy(strategies)
    \/ SubmitBuy(maxPositions)
    \/ PersistBuy
    \/ ExecuteOther

\* the loop task, started and stopped
Loop(symbols, maxPositions, strategies) ==
    \/ Start
    \/ Stop
    \/ LoopTask(symbols, maxPositions, strategies)

\* the administrative routes
Admin ==
    \/ \E id \in 1..MaxPositions : CloseRead(id)
    \/ CloseOrder
    \/ ClosePersist
    \/ \E id \in 1..MaxPositions, v \in OverrideStops : UpdateStopLoss(id, v)
    \/ \E s \in Symbols : RemoveCooldown(s)
    \/ ClearAllCooldowns
    \/ GetActiveCooldowns

\* The loop alone, trading two symbols
NextLoop == Loop(<< "A", "B" >>, MaxPositions, {EnvStrategy})

SpecLoop == Init /\ [][NextLoop]_vars

\* The loop on one symbol and one position, and PATCH /positions/:id/stop-loss
\* with a stop above every trailing stop or under the entry price
NextOverride ==
    \/ Loop(<< "A" >>, MaxPositions - 1, {EnvStrategy})
    \/ \E id \in 1..MaxPositions - 1, v \in LowOverrideStops : UpdateStopLoss(id, v)

SpecOverride == Init /\ [][NextOverride]_vars

\* The cooldown registry alone, its operations called in any order at any time
NextCooldown ==
    \/ \E s \in Symbols, r \in Reasons : AddSymbolCooldown(s, r)
    \/ \E s \in Symbols : IsSymbolOnCooldown(s)
    \/ \E s \in Symbols : RemoveCooldown(s)
    \/ ClearAllCooldowns
    \/ GetActiveCooldowns
    \/ Tick(CooldownStep)
    \/ Tick(CooldownStep + 1)

SpecCooldown == Init /\ [][NextCooldown]_vars

\* The loop on one symbol and one position, where every call the loop task
\* awaits comes back (its result or its error) and the task goes on
NextStop == Loop(<< "A" >>, MaxPositions - 1, {EnvStrategy})

SpecStop ==
    /\ Init
    /\ [][NextStop]_vars
    /\ WF_vars(LoopTask(<< "A" >>, MaxPositions - 1, {EnvStrategy}))

\* The loop on one symbol and one position, under every strategy row an
\* operator can have stored (PUT /strategy/:name writes the body unchecked)
NextEntry == Loop(<< "A" >>, MaxPositions - 1, Strategies)

SpecEntry == Init /\ [][NextEntry]_vars

\* The loop and the close route on one symbol and one position, with a database
\* that can reject a write after the exchange accepted an order
NextPersist ==
    \/ Loop(<< "A" >>, MaxPositions - 1, {EnvStrategy})
    \/ \E id \in 1..MaxPositions : CloseRead(id)
    \/ CloseOrder
    \/ ClosePersist
    \/ PersistBuyFails
    \/ PersistExitFails
    \/ ClosePersistFails

SpecPersist == Init /\ [][NextPersist]_vars

\* A signed request is made through withRetry: let lastError = null, attempt = 1
CallWithRetry ==
    /\ retry.pc \in {"idle", "returned", "thrown"}
    /\ retry' = [pc |-> "call", attempt |-> 1, calls |-> 0, lastError |-> NoError,
                 placed |-> 0]
    /\ UNCHANGED << config, bot_state, positions, orders, exchange, cooldownMap, now,
                    isRunning, shouldStop, loopVars, lastResult, lookup, closeReq,
                    macd, strategy_config, configCache, signalCall, sizingError >>

\* return await fn() in the try of withRetry, and its catch.  fn() is
\* signedRequest: it signs the same parameters with a new timestamp and sends
\* them; the exchange has acted on the request or not by the time fn() throws
Attempt ==
    /\ retry.pc = "call"
    /\ \E outcome \in Outcomes, accepted \in BOOLEAN :
          /\ accepted \in requestAccepted(outcome)
          /\ retry' = [withRetry(retry, outcome) EXCEPT
                           !.placed = IF accepted THEN @ + 1 ELSE @]
    /\ UNCHANGED << config, bot_state, positions, orders, exchange, cooldownMap, now,
                    isRunning, shouldStop, loopVars, lastResult, lookup, closeReq,
                    macd, strategy_config, configCache, signalCall, sizingError >>

\* The exchange client's signed calls, each attempt of which comes back
NextRetry == CallWithRetry \/ Attempt

SpecRetry == Init /\ [][NextRetry]_vars /\ WF_vars(Attempt)

\* computeMacdDecision is called for a symbol and awaits its three fetchCandles
FetchMacdCandles ==
    /\ macd.pc = "idle"
    /\ \E d1 \in D1Inputs, h4 \in H4Inputs, h1 \in H1Inputs :
          macd' = [pc |-> "fetch", d1 |-> d1, h4 |-> h4, h1 |-> h1,
                   decision |-> MacdDecision(NULL, 0, NULL, {})]
    /\ UNCHANGED << config, bot_state, positions, orders, exchange, cooldownMap, now,
                    isRunning, shouldStop, loopVars, lastResult, lookup, closeReq,
                    retry, strategy_config, configCache, signalCall, sizingError >>

\* the Promise.all settles and the gates run to the return
MacdDecide ==
    /\ macd.pc = "fetch"
    /\ \E fetched \in BOOLEAN :
          macd' = [macd EXCEPT !.pc = "done",
                               !.decision = computeMacdDecision(macd.d1, macd.h4,
                                                                macd.h1, fetched)]
    /\ UNCHANGED << config, bot_state, positions, orders, exchange, cooldownMap, now,
                    isRunning, shouldStop, loopVars, lastResult, lookup, closeReq,
                    retry, strategy_config, configCache, signalCall, sizingError >>

\* The MACD strategy's decision for one symbol
NextMacd == FetchMacdCandles \/ MacdDecide

SpecMacd == Init /\ [][NextMacd]_vars

\* everything but the strategy's calls, its cache and the strategy_config table
restVars == << config, bot_state, positions, orders, exchange, cooldownMap,
               isRunning, shouldStop, loopVars, lastResult, lookup, closeReq,
               retry, macd, sizingError >>

\* computeSignal(symbolCandles) up to its first wait: no candles returns at
\* once, a fresh cachedConfig is returned by getStrategyParams and the signal
\* computed, otherwise getActiveStrategyConfig is called and awaited
CallComputeSignal(c, inputs) ==
    /\ signalCall[c].pc = "idle"
    /\ \E candles \in inputs :
          IF candles.length = 0
          THEN /\ signalCall' = [signalCall EXCEPT ![c] =
                     [Call("done", candles, now) EXCEPT
                         !.decision = computeSignal(candles, DefaultStrategy)]]
               /\ UNCHANGED configCache
          ELSE IF cacheFresh(configCache, now)
          THEN /\ signalCall' = [signalCall EXCEPT ![c] =
                     [Call("done", candles, now) EXCEPT
                         !.config = configCache.cachedConfig,
                         !.readAt = configCache.readAt,
                         !.decision = computeSignal(candles,
                                                    configCache.cachedConfig)]]
               /\ UNCHANGED configCache
          ELSE /\ signalCall' = [signalCall EXCEPT ![c] =
                     Call("query", candles, now)]
               /\ configCache' = [configCache EXCEPT !.fetchedAt = now]
    /\ UNCHANGED << restVars, now, strategy_config >>

\* the database runs the query of getActiveStrategyConfig
ConfigQuery(c) ==
    /\ signalCall[c].pc = "query"
    /\ signalCall' = [signalCall EXCEPT ![c].pc = "reply",
                                        ![c].row = strategy_config,
                                        ![c].readAt = now]
    /\ UNCHANGED << restVars, now, strategy_config, configCache >>

\* the await of getActiveStrategyConfig resumes: the defaults for no row,
\* otherwise the row, which is cached with the now of the call; computeSignal
\* then runs to its return
ConfigFetched(c) ==
    /\ signalCall[c].pc = "reply"
    /\ LET call == signalCall[c]
           params == IF call.row = NoRow THEN DefaultStrategy ELSE call.row
       IN /\ configCache' = IF call.row = NoRow THEN configCache
                            ELSE [configCache EXCEPT !.cachedConfig = call.row,
                                                     !.configLastFetch = call.started,
                                                     !.readAt = call.readAt]
          /\ signalCall' = [signalCall EXCEPT ![c].pc = "done",
                                              ![c].config = params,
                                              ![c].waited = TRUE,
                                              ![c].decision =
                                                  computeSignal(call.candles, params)]
    /\ UNCHANGED << restVars, now, strategy_config >>

\* computeMultiSymbolSignals has the decision
SignalTaken(c) ==
    /\ signalCall[c].pc = "done"
    /\ signalCall' = [signalCall EXCEPT ![c] = NoCall]
    /\ UNCHANGED << restVars, now, strategy_config, configCache >>

\* PUT /strategy/:name with activation: another row becomes the active one
UpdateStrategy(bodies) ==
    /\ strategy_config # NoRow
    /\ strategy_config.id < MaxConfigId
    /\ \E body \in bodies :
          strategy_config' = StrategyRow(strategy_config.id + 1,
                                         body[1], body[2], body[3])
    /\ UNCHANGED << restVars, now, configCache, signalCall >>

\* the active row is deactivated or deleted
DeactivateStrategy ==
    /\ strategy_config # NoRow
    /\ strategy_config' = NoRow
    /\ UNCHANGED << restVars, now, configCache, signalCall >>

\* One computeSignal call under every stored strategy row
NextSignal ==
    \/ CallComputeSignal(1, SignalInputs)
    \/ ConfigQuery(1)
    \/ ConfigFetched(1)
    \/ UpdateStrategy(StrategyBodies)

SpecSignal == Init /\ [][NextSignal]_vars

\* The calls computeMultiSymbolSignals starts together for two symbols,
\* iteration after iteration, while the strategy row is edited and time passes
NextCache ==
    \/ \E c \in Calls :
          \/ CallComputeSignal(c, {RisingCandles})
          \/ ConfigQuery(c)
          \/ ConfigFetched(c)
          \/ SignalTaken(c)
    \/ UpdateStrategy({<< 20, 6, 0 - 5 >>})
    \/ DeactivateStrategy
    \/ (now < MaxCacheNow /\ Tick(CONFIG_CACHE_MS))

SpecCache == Init /\ [][NextCache]_vars

\* The loop and the administrative routes, on one symbol and one position
Next == Loop(<< "A" >>, MaxPositions - 1, {EnvStrategy}) \/ Admin \/ Tick(TimeStep)

Spec == Init /\ [][Next]_vars

----------------------------------------------------------------------------
(* Properties *)

SellOrdersFor(id) ==
    {i \in 1..Len(exchange) : exchange[i].side = "SELL" /\ exchange[i].position = id}

BuyOrders == {i \in 1..Len(exchange) : exchange[i].side = "BUY"}

OpenRows(symbol) ==
    {i \in 1..Len(positions) :
        positions[i].symbol = symbol /\ positions[i].status = "OPEN"}

\* C1: every loop iteration runs the position monitor, whatever checkGlobalTrading
\* answers: an iteration that goes to its sleep on the gate's answer has
\* monitored the OPEN positions.
C1_MonitorEveryIteration ==
    [][(Gate /\ pc' = "sleep") => monitored]_vars

\* C2: no step lowers the stored stop_loss_price of a trailing-enabled OPEN
\* position; the monitor writes a stop only when it is above the stored one.
C2_TrailingStopNeverDecreases ==
    [][\A i \in 1..Len(positions) :
          (positions[i].status = "OPEN" /\ positions[i].trailing_stop_enabled)
              => positions'[i].stop_loss_price >= positions[i].stop_loss_price]_vars

\* a monitor pass has raised the stop of an OPEN position above its initial stop
C2_StopRaised ==
    \E i \in 1..Len(positions) :
        /\ positions[i].status = "OPEN"
        /\ positions[i].trailing_stop_enabled
        /\ positions[i].stop_loss_price > positions[i].initial_stop_loss_price

\* C3: a manual close and a monitor pass on the same OPEN position submit at most
\* one exit SELL order for it between them.
C3_SingleExitOrder ==
    \A id \in 1..Len(positions) : Cardinality(SellOrdersFor(id)) <= 1

\* C4: a position in a terminal status keeps that status in every step.
C4_TerminalStatusFinal ==
    [][\A i \in 1..Len(positions) :
          positions[i].status \in Terminal
              => positions'[i].status = positions[i].status]_vars

C6_DeniedAtCap ==
    [][(/\ ExecuteBuy({EnvStrategy})
        /\ Cardinality(OpenRows(Head(decisions).symbol)) >= MAX_OPEN_ORDERS_PER_SYMBOL)
       => /\ ~validateOrder(Head(decisions).symbol, 0, bot_state, positions).allowed
          /\ pc' # "submit"
          /\ buyJob' = NoBuy
          /\ UNCHANGED << exchange, orders, positions >>]_vars

\* a BUY was refused for the cap while its symbol held an OPEN position, and
\* every BUY order the exchange holds belongs to a position
C6_RefusedAtCap ==
    /\ ~lastResult.success
    /\ lastResult.reason = "Max open positions reached"
    /\ lastResult.symbol \in Symbols
    /\ Cardinality(OpenRows(lastResult.symbol)) >= MAX_OPEN_ORDERS_PER_SYMBOL
    /\ Cardinality(BuyOrders) = Len(positions)

\* C7: with the kill switch on or trading off in the startup configuration,
\* checkGlobalTrading denies at the gate and the exchange receives no BUY order.
C7_NoBuyWhileBlocked ==
    (config.BOT_KILL_SWITCH \/ ~config.TRADING_ENABLED)
        => /\ pc = "gate" => ~checkGlobalTrading(bot_state).allowed
           /\ BuyOrders = {}

\* C8: checkPosition decides STOPPED_OUT when the price is at or below the stop
\* (also when it is at or above the take profit), TAKE_PROFIT otherwise when the
\* price is at or above the take profit, and moves the stop only when neither holds.
C8_ExitPriority ==
    [][(/\ pc = "check"
        /\ checkedPrice' # 0
        /\ (pc' # "check" \/ openPositions' # openPositions))
       => LET position == Head(openPositions)
              price == checkedPrice'
              hitStop == /\ position.stop_loss_price # 0
                         /\ price <= position.stop_loss_price
              hitTarget == /\ position.take_profit_price # 0
                           /\ price >= position.take_profit_price
          IN /\ pc' = "sell" =>
                   /\ hitStop \/ hitTarget
                   /\ sellJob'.id = position.id
                   /\ sellJob'.closeReason =
                          IF hitStop THEN "STOPPED_OUT" ELSE "TAKE_PROFIT"
             /\ (hitStop \/ hitTarget) =>
                   /\ positions'[position.id].stop_loss_price
                          = positions[position.id].stop_loss_price
                   /\ (\A p \in TickerPrices : ~sellBlocked(position.quantity, p))
                          => pc' = "sell"]_vars

\* a position is being sold as STOPPED_OUT at a price that is also at or above
\* its take profit
C8_StopBeatsTarget ==
    /\ pc = "sell"
    /\ sellJob.closeReason = "STOPPED_OUT"
    /\ checkedPrice <= Head(openPositions).stop_loss_price
    /\ checkedPrice >= Head(openPositions).take_profit_price

\* C9: a lookup that finds the entry registered at t0 with reason r returns true
\* and keeps the entry while t - t0 < duration(r), and returns false and removes
\* the entry once t - t0 >= duration(r).
C9_CooldownExpiry ==
    (lookup.symbol # NULL /\ lookup.entry # NoEntry)
        => LET elapsed == lookup.at - lookup.entry.closedAt
           IN IF elapsed < COOLDOWN_DURATION(lookup.entry.reason)
              THEN lookup.result /\ lookup.after = lookup.entry
              ELSE ~lookup.result /\ lookup.after = NoEntry

\* a lookup made exactly when a stop-loss cooldown has lasted its 60 minutes
C9_LookupAtExpiry ==
    /\ lookup.symbol # NULL
    /\ lookup.entry.reason = "stop_loss"
    /\ lookup.at - lookup.entry.closedAt = COOLDOWN_DURATION("stop_loss")
    /\ ~lookup.result
    /\ lookup.after = NoEntry

\* C10: executeBuyOrder for a symbol whose cooldown has not expired and was not
\* removed returns a failure with the cooldown reason, sends no order and creates
\* no position, whatever the score.
C10_CooldownBlocksBuy ==
    [][(/\ ExecuteBuy({EnvStrategy})
        /\ cooldownMap[Head(decisions).symbol] # NoEntry
        /\ now - cooldownMap[Head(decisions).symbol].closedAt
              < COOLDOWN_DURATION(cooldownMap[Head(decisions).symbol].reason))
       => /\ lastResult' = [symbol |-> Head(decisions).symbol, success |-> FALSE,
                            reason |-> "Symbol on cooldown after recent close"]
          /\ pc' # "submit"
          /\ buyJob' = NoBuy
          /\ UNCHANGED << exchange, orders, positions, cooldownMap >>]_vars

\* a BUY was refused for the cooldown its symbol is in after an exit
C10_RefusedOnCooldown ==
    /\ lastResult.reason = "Symbol on cooldown after recent close"
    /\ ~lastResult.success
    /\ lastResult.symbol \in Symbols
    /\ cooldownMap[lastResult.symbol] # NoEntry
    /\ \E i \in 1..Len(positions) :
          positions[i].symbol = lastResult.symbol /\ positions[i].status \in Terminal

\* the cooldown reason that goes with a terminal status
cooldownReasonOf(status) ==
    CASE status = "STOPPED_OUT" -> "stop_loss"
      [] status = "TAKE_PROFIT" -> "take_profit"
      [] status = "CLOSED" -> "manual_sell"

\* C11: a step that takes a position from OPEN to a terminal status leaves the
\* symbol with a cooldown entry of the matching reason, registered at that time.
C11_ExitRegistersCooldown ==
    [][\A i \in 1..Len(positions) :
          (positions[i].status = "OPEN" /\ positions'[i].status \in Terminal)
              => cooldownMap'[positions[i].symbol]
                    = [reason |-> cooldownReasonOf(positions'[i].status),
                       closedAt |-> now]]_vars

\* a loop instance exists: runBot has been entered and has neither returned
\* nor thrown
LoopActive == pc \notin {"idle", "crashed"}

\* C12: at most one loop instance is active: while one is, the running flag is
\* set, and a loop is launched only from the state where none is active and
\* the flag is clear (a start during a running loop, stop requested or not,
\* launches nothing).
C12_SingleLoopInstance ==
    /\ [](LoopActive => isRunning)
    /\ [][(pc' = "discover" /\ pc # "discover") => (pc = "idle" /\ ~isRunning)]_vars

\* stop has been requested and the loop is still in the middle of an iteration
C12_StopPendingMidIteration ==
    /\ isRunning
    /\ shouldStop
    /\ pc \in {"check", "sell", "persistExit", "exec", "submit", "persistBuy"}

\* C13: after stopBot on a running bot the running flag eventually becomes false.
C13_StopEventuallyStops == (isRunning /\ shouldStop) ~> ~isRunning

\* C14: an error inside an iteration sends the loop to its sleep and on to the
\* next iteration; the loop instance ends only at the while test, after stop
\* was requested.
C14_ErrorsKeepLoopAlive ==
    [][/\ (LoopActive /\ pc # "discover" /\ ~LoopActive') => (pc = "head" /\ shouldStop)
       /\ CatchError => (pc' = "sleep" /\ isRunning' = isRunning)
       /\ (pc = "sleep" /\ pc' # "sleep") => pc' = "head"]_vars

\* the loop sleeps after an error in an iteration that passed the gate, with a
\* position OPEN
C14_SleepAfterError ==
    /\ pc = "sleep"
    /\ isRunning
    /\ ~monitored
    /\ checkGlobalTrading(bot_state).allowed
    /\ \E i \in 1..Len(positions) : positions[i].status = "OPEN"

\* the symbols of a sequence of decisions, in order
symbolsOf(ds) == [i \in 1..Len(ds) |-> ds[i].symbol]

\* C15: fetchMultiSymbolCandles leaves out exactly the symbols whose fetch was
\* rejected and returns every other watched symbol, and the decisions executed
\* in that iteration are those of the returned symbols, in order.
C15_FetchFailureIsolated ==
    /\ [](candleFetch # NoFetch =>
            \A s \in Symbols :
               (s \notin candleFetch.failed)
                  <=> (\E i \in 1..Len(candleFetch.successful) :
                          candleFetch.successful[i] = s))
    /\ [][(pc = "signals" /\ pc' = "exec")
             => symbolsOf(decisions') = candleFetch.successful]_vars
    /\ [](pc \in {"exec", "submit", "persistBuy"} =>
            \E k \in 1..Len(candleFetch.successful) :
               symbolsOf(decisions) = SubSeq(candleFetch.successful, k,
                                             Len(candleFetch.successful)))

\* the fetch for B was rejected and, in the same iteration, the BUY for A has
\* been accepted by the exchange and is being recorded
C15_BuyDespiteFailedFetch ==
    /\ candleFetch.failed = {"B"}
    /\ pc = "persistBuy"
    /\ buyJob.symbol = "A"

\* C16: whenever executeDecisions is done with a BUY decision, that decision
\* alone leaves the batch (every remaining decision is still to be executed)
\* and a result for its symbol has been recorded.
C16_BuyFailureIsolated ==
    [][(/\ pc \in {"exec", "submit", "persistBuy"}
        /\ decisions' # decisions
        /\ Head(decisions).signal = "BUY")
          => (/\ decisions' = Tail(decisions)
              /\ lastResult'.symbol = Head(decisions).symbol
              /\ pc' = IF Tail(decisions) = << >> THEN "sleep" ELSE "exec")]_vars

\* the quantity is at least minQty and its notional at least minNotional * buffer
\* (quantities are counted in steps, so each is a whole multiple of stepSize)
validQuantity(steps, price) ==
    /\ steps >= SymbolFilters.minQtySteps
    /\ ~belowBufferedNotional(steps, price)

\* C17: every order the exchange receives (the entry BUY, the monitor's exit
\* SELL, the manual close SELL) has a quantity of at least minQty whose
\* notional at the price of its submission is at least minNotional * buffer.
C17_SubmittedQuantitiesValid ==
    [][/\ (pc = "submit" /\ pc' = "persistBuy")
            => validQuantity(buyJob.quantity, buyJob.currentPrice)
       /\ (pc = "sell" /\ pc' = "persistExit")
            => validQuantity(sellJob.quantity, sellJob.price)
       /\ (closeReq.pc = "order" /\ closeReq'.pc = "persist")
            => validQuantity(closeReq.quantity, closeReq.price)]_vars

\* the same for the entry BUY alone
C17_EntryQuantityValid ==
    [][(pc = "submit" /\ pc' = "persistBuy")
          => validQuantity(buyJob.quantity, buyJob.currentPrice)]_vars

\* C18: every position row the executor creates has
\* stop_loss_price < entry_price < take_profit_price.
C18_StopBelowEntryBelowTarget ==
    [][Len(positions') > Len(positions) =>
          LET created == positions'[Len(positions')]
          IN /\ created.stop_loss_price < created.entry_price
             /\ created.entry_price < created.take_profit_price]_vars

\* C19: no step lowers a position's highest_price, it is never below the entry
\* price, and a price update by the monitor leaves it at the larger of its
\* previous value and the price just read.
C19_HighestPriceMonotone ==
    /\ [](\A i \in 1..Len(positions) :
             positions[i].highest_price >= positions[i].entry_price)
    /\ [][\A i \in 1..Len(positions) :
             /\ positions'[i].highest_price >= positions[i].highest_price
             /\ (CheckPosition /\ Head(openPositions).id = i)
                   => positions'[i].highest_price
                         = Max(positions[i].highest_price, checkedPrice')]_vars

\* a price update below the recorded high has kept the high
C19_HighKeptAfterLowerPrice ==
    \E i \in 1..Len(positions) :
       /\ checkedPrice > 0
       /\ checkedPrice < positions[i].highest_price
       /\ positions[i].highest_price > positions[i].entry_price

\* executeSellOrder stands at its guards with an exit whose notional is below
\* the symbol's minNotional
belowMinNotional ==
    /\ pc = "sell"
    /\ sellJob.quantity * sellJob.price
          < SymbolFilters.minNotional * 100 * SymbolFilters.stepsPerUnit

\* C20: when an exit has fired and its notional is below minNotional, the
\* monitor's next step sends no order, writes no order row, no cooldown and
\* nothing to the position, which stays among the rows the next pass reads;
\* and the check that fired the exit left its status, stop-loss and
\* take-profit as they were.
C20_BlockedExitDeferred ==
    [][/\ (belowMinNotional /\ pc' # pc)
            => /\ pc' \in {"check", "fetch"}
               /\ UNCHANGED << exchange, orders, cooldownMap, positions >>
               /\ positions[sellJob.id].status = "OPEN"
                     => \E k \in 1..Len(getOpenPositions(positions')) :
                           getOpenPositions(positions')[k].id = sellJob.id
       /\ (pc = "check" /\ pc' = "sell")
            => LET before == positions[sellJob'.id]
                   after == positions'[sellJob'.id]
               IN /\ after.status = before.status
                  /\ after.stop_loss_price = before.stop_loss_price
                  /\ after.take_profit_price = before.take_profit_price]_vars

\* a stop-loss or take-profit has fired for an OPEN position and the notional
\* of its exit is below minNotional
C20_ExitBelowMinNotional ==
    /\ belowMinNotional
    /\ sellJob.closeReason \in {"STOPPED_OUT", "TAKE_PROFIT"}
    /\ positions[sellJob.id].status = "OPEN"

\* C21: every position row has an entry order the exchange accepted for its
\* symbol, and a step of executeDecisions that is done with a decision
\* without the exchange having accepted an order for it (a skip, a refusal, a
\* rejected submission) writes no position row and no order row.
C21_PositionOnlyAfterAcceptedBuy ==
    /\ [](\A i \in 1..Len(positions) :
             \E k \in BuyOrders :
                /\ exchange[k].orderId = positions[i].entry_order_id
                /\ exchange[k].symbol = positions[i].symbol)
    /\ [][(pc \in {"exec", "submit"} /\ decisions' # decisions)
             => UNCHANGED << positions, orders, exchange >>]_vars
    /\ [][Len(positions') > Len(positions) => pc = "persistBuy"]_vars

\* a BUY has been refused or rejected and nothing has been written
C21_BuyRefused ==
    /\ lastResult.symbol = "A"
    /\ ~lastResult.success
    /\ lastResult.reason \notin {"Database error", "SELL logic not implemented"}
    /\ positions = << >>
    /\ orders = << >>

\* the rows of the orders table that carry the exchange's order id
OrderRecords(orderId) ==
    {j \in 1..Len(orders) : orders[j].binance_order_id = orderId}

\* C22: once the handler that sent an order is done, the order has exactly one
\* row in the orders table; every row is that of an accepted order; rows are
\* only appended.
C22_OneRecordPerAcceptedOrder ==
    /\ []((pc \notin {"persistBuy", "persistExit"} /\ closeReq.pc # "persist")
            => \A k \in 1..Len(exchange) :
                  Cardinality(OrderRecords(exchange[k].orderId)) = 1)
    /\ [](\A j \in 1..Len(orders) :
             \E k \in 1..Len(exchange) :
                exchange[k].orderId = orders[j].binance_order_id)
    /\ [][/\ Len(orders') >= Len(orders)
          /\ SubSeq(orders', 1, Len(orders)) = orders]_vars

\* C23: executeDecisions takes the decisions one after another; when it is done
\* with a SELL decision the exchange has received a SELL order for its symbol,
\* and a HOLD decision leaves the exchange as it was.
C23_SellDecisionsSubmitted ==
    [][(pc = "exec" /\ decisions' # decisions)
          => /\ decisions' \in {Tail(decisions), << >>}
             /\ Head(decisions).signal = "HOLD" => exchange' = exchange
             /\ Head(decisions).signal = "SELL"
                   => /\ Len(exchange') = Len(exchange) + 1
                      /\ exchange'[Len(exchange')].side = "SELL"
                      /\ exchange'[Len(exchange')].symbol = Head(decisions).symbol]_vars

\* C24: withRetry calls the wrapped request at most MAX_RETRIES times, every
\* call it starts ends (returned or thrown), what it throws is the error of
\* its last attempt, and it calls nothing after a success.
C24_RetryBoundedAndTerminates ==
    /\ [](retry.calls <= MAX_RETRIES)
    /\ [](retry.pc = "thrown" => retry.lastError \in ExchangeErrors)
    /\ [][retry.pc = "returned" => retry'.calls <= retry.calls]_vars
    /\ (retry.pc = "call") ~> (retry.pc \in {"returned", "thrown"})

\* three rate-limited attempts, then the last error is thrown
C24_ThrownAfterLastAttempt ==
    /\ retry.pc = "thrown"
    /\ retry.calls = MAX_RETRIES
    /\ isRateLimit(retry.lastError)

\* C25: an exchange error whose code is not a rate-limit code is thrown to the
\* caller by the attempt that met it, and that attempt is the first.
C25_ClientErrorNotRetried ==
    [][(/\ retry.pc = "call"
        /\ retry'.calls = retry.calls + 1
        /\ retry'.pc # "returned"
        /\ retry'.lastError.code # NoCode
        /\ ~isRateLimit(retry'.lastError))
          => (retry'.pc = "thrown" /\ retry'.calls = 1)]_vars

\* C26: in the MACD strategy a NEUTRAL bias from Gate 1 gives HOLD with score 0
\* and neither computeH4Signal nor confirmH1Histogram is evaluated, whatever the
\* medium- and fast-timeframe candles are
C26_NeutralBiasHoldsWithoutGates ==
    (/\ macd.pc = "done"
     /\ macd.decision.reason # "Error"
     /\ macd.d1.count >= MinCandles
     /\ computeDailyBiasFromSeries(computeMacdSeries(macd.d1)) = "NEUTRAL")
        => /\ macd.decision.signal = "HOLD"
           /\ macd.decision.score = 0
           /\ macd.decision.gates \cap {Gate2, Gate3} = {}

\* a neutral bias met candles that pass the trigger and the confirmation of a
\* bullish bias
C26_NeutralOverBullishLowerFrames ==
    /\ macd.pc = "done"
    /\ macd.decision.reason = "Daily bias neutral"
    /\ macd.d1.count = D1_LIMIT
    /\ computeH4Signal(computeMacdSeries(macd.h4), "BULLISH").strengthOk
    /\ confirmH1Histogram(computeMacdSeries(macd.h1), "LONG")

\* C27: computeMacdDecision returns BUY exactly when the bias is BULLISH, the
\* most recent crossover within the lookback is bullish with MACD at or above
\* p75, and the fast histogram confirms LONG; SELL exactly in the bearish case
\* (at or below p25, SHORT); BUY and SELL carry score 3, and everything else
\* (a gate failing, too few candles, an error) is HOLD with score 0
C27_BuySellExactlyWhenAllGatesPass ==
    LET d1 == computeMacdSeries(macd.d1)
        h4 == computeMacdSeries(macd.h4)
        h1 == computeMacdSeries(macd.h1)
        enough == /\ macd.decision.reason # "Error"
                  /\ macd.d1.count >= MinCandles
                  /\ macd.h4.count >= MinCandles
                  /\ macd.h1.count >= MinCandles
                  /\ Len(h4) >= MIN_H4_MACD_POINTS
        cross == findRecentCrossover(h4, H4_CROSS_LOOKBACK)
        stats == computeMacdStats(h4, Len(h4))
        bullish == /\ enough
                   /\ computeDailyBiasFromSeries(d1) = "BULLISH"
                   /\ cross # 0
                   /\ isBullishCrossover(h4[cross - 1], h4[cross])
                   /\ h4[cross].macd >= stats.p75
                   /\ confirmH1Histogram(h1, "LONG")
        bearish == /\ enough
                   /\ computeDailyBiasFromSeries(d1) = "BEARISH"
                   /\ cross # 0
                   /\ isBearishCrossover(h4[cross - 1], h4[cross])
                   /\ h4[cross].macd <= stats.p25
                   /\ confirmH1Histogram(h1, "SHORT")
    IN macd.pc = "done"
          => /\ macd.decision.signal = "BUY" <=> bullish
             /\ macd.decision.signal = "SELL" <=> bearish
             /\ macd.decision.signal \in {"BUY", "SELL"} => macd.decision.score = MacdScore
             /\ macd.decision.signal \notin {"BUY", "SELL"}
                   => macd.decision.signal = "HOLD" /\ macd.decision.score = 0

\* all three gates passed on a bullish bias
C27_BuyReturned ==
    /\ macd.pc = "done"
    /\ macd.decision.signal = "BUY"
    /\ macd.decision.gates = {Gate1, Gate2, Gate3}

SizingMessage == "Stop loss price must be below entry price"

\* C29: a stop-loss price equal to the entry price (stop-loss percent 0) makes
\* position sizing throw an Error with a message: executeBuyOrder comes to no
\* quantity and does not go on, the buy ends there with no order sent, and every
\* buy that is submitted has its stop below its entry
C29_ZeroRiskIsAnError ==
    /\ [](pc = "exec" /\ Head(decisions).signal = "BUY"
            => \A baseBalance \in Balances \ {0}, strategy \in Strategies :
                  LET decision == Head(decisions)
                      out == executeBuyOrder(decision, cooldownMap, now, bot_state,
                                             positions, baseBalance, strategy)
                      zeroRisk == stopLossPriceOf(decision.currentPrice,
                                                  strategy.stop_loss_percent)
                                      = decision.currentPrice
                  IN (zeroRisk /\ ~isSymbolOnCooldown(cooldownMap, decision.symbol,
                                                      now).result)
                        => /\ out.throws
                           /\ out.reason = SizingMessage
                           /\ ~out.proceed
                           /\ out.quantity = 0)
    /\ [][/\ (pc = "exec" /\ pc' = "submit")
                => buyJob'.stopLossPrice < buyJob'.currentPrice
          /\ sizingError' # sizingError
                => /\ sizingError' = SizingMessage
                   /\ buyJob' = NoBuy
                   /\ pc' = "sleep"
                   /\ exchange' = exchange
                   /\ positions' = positions]_vars

\* calculateOrderQuantity has thrown and the exchange has received no order
C29_SizingThrew ==
    /\ sizingError = SizingMessage
    /\ pc = "sleep"
    /\ exchange = << >>

\* C30: strategy evaluation reads its parameters only through the TTL cache: a
\* signal computation never waits on a fetch of the active row, no fetch is
\* begun within the refresh interval of the last one, and the config a
\* computation works with was read at most one refresh interval before it
C30_NeverWaitsOnFetch ==
    [][\A c \in Calls :
          /\ signalCall'[c].pc \notin {"query", "reply"}
          /\ (/\ signalCall[c].pc = "idle"
              /\ signalCall'[c].pc = "query"
              /\ configCache.fetchedAt # NoValue)
                => now - configCache.fetchedAt >= CONFIG_CACHE_MS
          /\ (signalCall'[c].pc = "done" /\ signalCall'[c].config # NoRow)
                => signalCall'[c].started - signalCall'[c].readAt
                      <= CONFIG_CACHE_MS]_vars

\* C30, as the code has it: a computation that finds a cached row stored by a
\* fetch begun less than the refresh interval ago works with it, without a
\* fetch and without waiting; any other computation with candles calls
\* getActiveStrategyConfig and waits for it, then works with the row it read (the
\* defaults when there is none); a cached row is worked with only while less
\* than one refresh interval has passed since it was read
C30_FreshCacheOrAwaitedFetch ==
    /\ [][\A c \in Calls :
             (signalCall[c].pc = "idle" /\ signalCall'[c].pc # "idle"
                  /\ signalCall'[c].candles.length # 0)
                => IF /\ configCache.cachedConfig # NoRow
                      /\ now - configCache.configLastFetch < CONFIG_CACHE_MS
                   THEN /\ signalCall'[c].pc = "done"
                        /\ ~signalCall'[c].waited
                        /\ signalCall'[c].config = configCache.cachedConfig
                        /\ configCache' = configCache
                   ELSE /\ signalCall'[c].pc = "query"
                        /\ configCache'.fetchedAt = now]_vars
    /\ [](\A c \in Calls :
             signalCall[c].pc = "done" /\ signalCall[c].config # NoRow
                => IF signalCall[c].waited
                   THEN /\ signalCall[c].readAt >= signalCall[c].started
                        /\ signalCall[c].config
                              = IF signalCall[c].row = NoRow THEN DefaultStrategy
                                ELSE signalCall[c].row
                   ELSE /\ signalCall[c].readAt <= signalCall[c].started
                        /\ signalCall[c].started - signalCall[c].readAt
                              < CONFIG_CACHE_MS)

\* a computation was answered from the cache, without a fetch, with a row the
\* table no longer has as its active one
C30_ServedFromCacheAfterEdit ==
    \E c \in Calls :
       /\ signalCall[c].pc = "done"
       /\ ~signalCall[c].waited
       /\ signalCall[c].config # NoRow
       /\ signalCall[c].config # strategy_config

\* the floored risk quantity of a buy, in steps, restated from the sizing:
\* floor(balance * cap% * risk% / (price * stop%) / stepSize)
flooredQuantity(baseBalance, price, strategy) ==
    (baseBalance * MAX_TRADING_CAPITAL_PERCENT * RISK_PER_TRADE_PERCENT
        * SymbolFilters.stepsPerUnit) \div (price * strategy.stop_loss_percent)

\* the buys executeBuyOrder lets through from the state, with their inputs
sizedBuys ==
    {[baseBalance |-> b, strategy |-> st,
      out |-> executeBuyOrder(Head(decisions), cooldownMap, now, bot_state, positions,
                              b, st)] :
        b \in Balances \ {0}, st \in {x \in Strategies : x.stop_loss_percent > 0}}

trailingWrites(i) ==
    /\ pc = "check"
    /\ openPositions' = Tail(openPositions)
    /\ Head(openPositions).id = i
    /\ positions'[i].stop_loss_price # positions[i].stop_loss_price

\* C32: every stop_loss_price the trailing logic stores is at least the
\* position's entry_price, and it stores one only in a pass whose price is at
\* least the activation threshold above the entry price.
C32_TrailingStopAtLeastEntry ==
    [][\A i \in 1..Len(positions) :
          trailingWrites(i)
              => /\ positions'[i].stop_loss_price >= positions[i].entry_price
                 /\ (checkedPrice' - positions[i].entry_price) * 100
                        >= trailing.activation * positions[i].entry_price]_vars

\* the trailing logic has stored the entry price as the stop of an OPEN
\* position: the candidate was below it and was floored
C32_StopFlooredAtEntry ==
    \E i \in 1..Len(positions) :
        /\ positions[i].status = "OPEN"
        /\ positions[i].stop_loss_price = positions[i].entry_price
        /\ positions[i].initial_stop_loss_price < positions[i].entry_price

\* C33: the stop the trailing logic stores in a pass is the candidate computed
\* from the highest_price as updated by that pass, max(previous highest_price,
\* current price), floored at the entry price.
C33_CandidateFromUpdatedHigh ==
    [][\A i \in 1..Len(positions) :
          trailingWrites(i)
              => LET row == positions[i]
                     previous == IF row.highest_price = 0 THEN row.entry_price
                                 ELSE row.highest_price
                     updatedHigh == Max(previous, checkedPrice')
                     candidate == (updatedHigh * (100 - trailing.distance)) \div 100
                 IN /\ positions'[i].highest_price = updatedHigh
                    /\ positions'[i].stop_loss_price = Max(candidate, row.entry_price)]_vars

\* the stop stored for the row is one the trailing logic wrote: the row was
\* created with initial_stop_loss_price and the override requests are known
trailingStored(row) ==
    row.stop_loss_price \notin LowOverrideStops \cup {row.initial_stop_loss_price}

\* C34: once the trailing logic has raised the stop of an OPEN position, no
\* step (monitor pass or manual override) stores a lower stop_loss_price for it.
C34_RatchetedStopNeverLowered ==
    [][\A i \in 1..Len(positions) :
          (positions[i].status = "OPEN" /\ trailingStored(positions[i]))
              => positions'[i].stop_loss_price >= positions[i].stop_loss_price]_vars

\* C35: when the stored stop of a position was changed after the monitor read
\* its row, the trailing update of that pass does not replace it by a lower
\* value (one that only the stop read earlier justified).
C35_OverrideNotLost ==
    [][\A i \in 1..Len(positions) :
          (/\ trailingWrites(i)
           /\ positions[i].stop_loss_price # Head(openPositions).stop_loss_price)
              => positions'[i].stop_loss_price > positions[i].stop_loss_price]_vars

\* C36: when the exit order of a triggered stop loss or take profit is not
\* accepted by the exchange, the step leaves the position OPEN and unchanged,
\* adds no order record and no cooldown, and the pass goes on with the
\* remaining rows it read (to the market data only when none is left).
C36_RejectedExitIsolated ==
    [][(pc = "sell" /\ pc' # "sell" /\ pc' # "persistExit")
          => /\ positions' = positions
             /\ positions[sellJob.id].status = "OPEN"
             /\ orders' = orders
             /\ exchange' = exchange
             /\ cooldownMap' = cooldownMap
             /\ openPositions' = Tail(openPositions)
             /\ pc' = IF Tail(openPositions) = << >> THEN "fetch" ELSE "check"]_vars

\* the newest of two OPEN positions saw a price at or under its stop and at
\* which its exit can be sent, it is still OPEN with no exit order, no record
\* and no cooldown, and the pass is at the check of the other position
C36_PassGoesOnAfterRejectedExit ==
    /\ pc = "check"
    /\ Len(positions) = 2
    /\ Len(openPositions) = 1
    /\ Head(openPositions).id = 1
    /\ positions[2].status = "OPEN"
    /\ checkedPrice = 9700
    /\ checkExit(positions[2], checkedPrice) = "STOPPED_OUT"
    /\ ~sellBlocked(positions[2].quantity, checkedPrice)
    /\ SellOrdersFor(2) = {}
    /\ Len(orders) = 2
    /\ \A i \in 1..Len(orders) : orders[i].side = "BUY"
    /\ cooldownMap[positions[2].symbol] = NoEntry

\* C37: the running flag is set only while a loop instance is active; after a
\* start whose initial symbol discovery failed it is clear again, so that
\* isBotRunning reports false and POST /start is accepted.
C37_RunningOnlyWhileLoopActive ==
    /\ isRunning => LoopActive
    /\ pc = "crashed" => ~isRunning

\* C38: the requests one createOrder call sends place at most one order on the
\* exchange.
C38_AtMostOneOrderPerCall == retry.placed <= 1

====
